---- MODULE Spec2Model ----
(***************************************************************************)
(* Model of the qss / multi-symbolizer pipeline of juitem/qms:             *)
(*   parser.py -> resolver.py -> symbolizer.py / addr2line_runner.py ->    *)
(*   output_formatter.py -> merge_original.py          (src/qms3)          *)
(*   transform_text                      (src/quick_multi_symbolizer_int1) *)
(*                                                                         *)
(* Text.  Every Python string is a sequence of atoms.  An atom is a TLA+   *)
(* string: one character for white space, punctuation and (hex) digits,    *)
(* the two characters "0x", or an opaque word (a path, a function name, a  *)
(* file name) that holds none of the characters the regular expressions    *)
(* of the program look at.  Text(s) is the Python string itself.  The      *)
(* regular expressions are translated to scans over atoms.  A line is a    *)
(* string without its trailing newline; a file is a sequence of lines.     *)
(* None and the empty string are both <<>> (the program only tests these   *)
(* Optional[str] fields for truthiness).                                   *)
(***************************************************************************)
EXTENDS Integers, Sequences, FiniteSets, TLC

VARIABLES
    pc,          \* position of the driving program (qss._merge_single_file / run_symbolization,
                 \* or _rewrite_one_file of quick_multi_symbolizer_int1)
    disk,        \* content of the input log file on disk (sequence of lines)
    source,      \* the lines read from the input file (by parse_stack_file, or by
                 \* _rewrite_one_file: then with their line terminators)
    fs,          \* files that exist (rootfs-joined and host paths)
    backendOk,   \* whether the addr2line executable can be run and exits 0
    traces,      \* List[StackTrace] returned by parse_stack_file
    symTraces,   \* List[SymbolizedTrace] returned by symbolize_all
    caches,      \* symbolizer._resolve_cache (rcache) and symbolizer._addr2line_cache (acache)
    outLines,    \* lines written by the last output step (merged file / stack-only text /
                 \* the text of transform_text, then with their line terminators)
    reparsed,    \* parse_stack_lines applied to the stack-only text
    final_cache, \* Dict[OriginKey, SymbolInfo] handed to transform_text by main
    tree,        \* the host filesystem seen by FindDebugElfsforMain (nodes: files and symbolic links)
    findResult,  \* what resolve_buildid_candidate / find_debug_for_main returned
    store,       \* rows of the table symbols of the --cache-db file
    runs,        \* the runs of quick_multi_symbolizer_int1.main
    requests,    \* the calls of run_addr2line_multi made by symbolizer._symbolize_group, in time order
    qssArgs,     \* what one qss.py process is started on: the input path, the rootfs, the mode
    qssRun,      \* that process: its position, exit code, the files it parsed and wrote
    batch,       \* one qss_batch.py run: the files found, the qss.py processes, the output directory
    reader,      \* one call of Addr2LineProcess.symbolize_many and the stdout pipe of its backend
    resolvedTarget     \* what resolve_target_elf_gnu / _resolve_target_elf_single returned for one binary

vars == <<pc, disk, source, fs, backendOk, traces, symTraces, caches, outLines, reparsed, final_cache, tree, findResult,
         store, runs, requests, qssArgs, qssRun, batch, reader, resolvedTarget>>

qssVars == <<qssArgs, qssRun, batch, reader, resolvedTarget>>

findVars == <<tree, findResult>>

int1Vars == <<store, runs>>

oldVars == <<pc, disk, source, fs, backendOk, traces, symTraces, caches, outLines, reparsed, final_cache, tree, findResult,
            requests, qssArgs, qssRun, batch, reader, resolvedTarget>>

(***************************************************************************)
(* Bounds of the model                                                     *)
(***************************************************************************)
\* groups of one trace whose completion order is varied
MaxGroups == 2

\* the permutations of 1..n, as sequences
CompletionRanks(n) == {p \in [1..n -> 1..n] : \A i, j \in 1..n : p[i] = p[j] => i = j}

MaxLines == 3

(***************************************************************************)
(* Atoms and small helpers                                                 *)
(***************************************************************************)
None == <<>>

DigitAtoms == {"0", "1", "2", "3", "4", "5", "6", "7", "8", "9"}

HexAtoms == DigitAtoms \cup {"a", "b", "c", "d", "e", "f", "A", "B", "C", "D", "E", "F"}

WsAtoms == {" ", "\t", "\n", "\f"}

PathAtoms == {"/lib/a.so", "/lib/b.so", "/usr/lib64/libfoo.so"}

IsWs(a) == a \in WsAtoms

SetMin(S) == CHOOSE m \in S : \A k \in S : m <= k

RECURSIVE Text(_)
Text(s) == IF s = <<>> THEN "" ELSE Head(s) \o Text(Tail(s))

RECURSIVE Flatten(_)
Flatten(ss) == IF ss = <<>> THEN <<>> ELSE Head(ss) \o Flatten(Tail(ss))

\* end (exclusive) of the longest run of atoms of class C that starts at i
RunEnd(s, i, C) == SetMin({j \in i..(Len(s) + 1) : j = Len(s) + 1 \/ s[j] \notin C})

At(s, i) == IF i >= 1 /\ i <= Len(s) THEN s[i] ELSE ""

\* the atoms lit occur in s from position i on
Literal(s, i, lit) == \A k \in 1..Len(lit) : At(s, i + k - 1) = lit[k]

DigitVal(a) == CHOOSE n \in 0..9 : ToString(n) = a

RECURSIVE DecVal(_)
DecVal(ds) == IF ds = <<>> THEN 0 ELSE 10 * DecVal(SubSeq(ds, 1, Len(ds) - 1)) + DigitVal(ds[Len(ds)])

RECURSIVE ToDigits(_)
ToDigits(n) == IF n < 10 THEN <<ToString(n)>> ELSE ToDigits(n \div 10) \o <<ToString(n % 10)>>

\* str.lstrip() / str.strip() over white-space atoms
LStrip(s) == SubSeq(s, RunEnd(s, 1, WsAtoms), Len(s))

RStrip(s) == SubSeq(s, 1, SetMin({j \in 0..Len(s) : \A k \in (j + 1)..Len(s) : IsWs(s[k])}))

Strip(s) == LStrip(RStrip(s))

(***************************************************************************)
(* parser.py                                                               *)
(***************************************************************************)
\* _FRAME_LINE_RE:  ^\s*#(\d+)\s+(0x[0-9a-fA-F]+)(.*)$
FrameLineRe(line) ==
    LET h  == RunEnd(line, 1, WsAtoms)
        d1 == RunEnd(line, h + 1, DigitAtoms)
        w1 == RunEnd(line, d1, WsAtoms)
        x1 == RunEnd(line, w1 + 1, HexAtoms)
        ok == /\ At(line, h) = "#"
              /\ d1 > h + 1
              /\ w1 > d1
              /\ At(line, w1) = "0x"
              /\ x1 > w1 + 1
    IN  IF ok
        THEN [matched |-> TRUE,
              frame_index |-> SubSeq(line, h + 1, d1 - 1),
              address |-> SubSeq(line, w1, x1 - 1),
              rest |-> SubSeq(line, x1, Len(line))]
        ELSE [matched |-> FALSE, frame_index |-> <<>>, address |-> <<>>, rest |-> <<>>]

\* the '(<elf_path>+0x<offset>)' part of _ELF_AND_BUILDID_RE matched at position p;
\* the result is the position after ')' or 0
ElfGroupAt(s, p) ==
    LET x1 == RunEnd(s, p + 4, HexAtoms)
    IN  IF /\ At(s, p) = "("
           /\ At(s, p + 1) \in PathAtoms
           /\ At(s, p + 2) = "+"
           /\ At(s, p + 3) = "0x"
           /\ x1 > p + 4
           /\ At(s, x1) = ")"
        THEN x1 + 1
        ELSE 0

\* the optional '\s*\(Build-id:<hex>\)' part of _ELF_AND_BUILDID_RE, tried at position q
BuildIdGroupAt(s, q) ==
    LET w1 == RunEnd(s, q, WsAtoms)
        x1 == RunEnd(s, w1 + 5, HexAtoms)
    IN  IF /\ Literal(s, w1, <<"(", "Build", "-", "id", ":">>)
           /\ x1 > w1 + 5
           /\ At(s, x1) = ")"
        THEN SubSeq(s, w1 + 5, x1 - 1)
        ELSE None

\* _ELF_AND_BUILDID_RE.search(rest)
ElfAndBuildIdRe(rest) ==
    LET P == {p \in 1..Len(rest) : ElfGroupAt(rest, p) > 0}
    IN  IF P = {}
        THEN [matched |-> FALSE, elf_path |-> None, offset |-> None, build_id |-> None]
        ELSE LET p == SetMin(P)
                 q == ElfGroupAt(rest, p)
             IN  [matched |-> TRUE,
                  elf_path |-> <<rest[p + 1]>>,
                  offset |-> SubSeq(rest, p + 4, q - 2),
                  build_id |-> BuildIdGroupAt(rest, q)]

IsFrameLine(line) == FrameLineRe(line).matched

\* _parse_frame_line; the result is a one-element sequence or <<>> (None)
parse_frame_line(line, current_trace_index) ==
    LET m  == FrameLineRe(line)
        em == ElfAndBuildIdRe(m.rest)
    IN  IF ~m.matched
        THEN <<>>
        ELSE <<[trace_index |-> current_trace_index,
                frame_index |-> DecVal(m.frame_index),
                address |-> m.address,
                obj_path |-> IF em.matched THEN em.elf_path ELSE None,
                obj_offset |-> IF em.matched THEN <<"0x">> \o em.offset ELSE None,
                build_id |-> IF em.matched THEN em.build_id ELSE None,
                raw_line |-> line]>>

\* the local state of parse_stack_lines before its loop
ParseInit ==
    [traces |-> <<>>, current_trace_index |-> -1, current_frames |-> <<>>,
     current_preamble |-> <<>>, pending_preamble |-> <<>>]

\* flush_current_trace that does not reset current_frames
flush_keeps_frames(st) ==
    IF st.current_frames = <<>>
    THEN st
    ELSE [st EXCEPT !.traces = Append(st.traces,
                                     [trace_index |-> st.current_trace_index,
                                      frames |-> st.current_frames,
                                      preamble |-> st.current_preamble]),
                    !.current_preamble = <<>>]

\* flush_current_trace
flush_current_trace(st) ==
    IF st.current_frames = <<>>
    THEN st
    ELSE [st EXCEPT !.traces = Append(st.traces,
                                     [trace_index |-> st.current_trace_index,
                                      frames |-> st.current_frames,
                                      preamble |-> st.current_preamble]),
                    !.current_frames = <<>>,
                    !.current_preamble = <<>>]

\* one iteration of the loop of parse_stack_lines
ParseStep(st, line) ==
    LET fr == parse_frame_line(line, IF st.current_trace_index >= 0 THEN st.current_trace_index ELSE 0)
    IN  IF fr = <<>>
        THEN IF st.current_frames # <<>>
             THEN st
             ELSE [st EXCEPT !.pending_preamble = Append(st.pending_preamble, line)]
        ELSE LET frame == fr[1]
             IN  IF frame.frame_index = 0
                 THEN LET fl == flush_current_trace(st)
                          ti == Len(fl.traces)
                      IN  [fl EXCEPT !.current_trace_index = ti,
                                     !.current_preamble = fl.pending_preamble,
                                     !.pending_preamble = <<>>,
                                     !.current_frames = Append(fl.current_frames, [frame EXCEPT !.trace_index = ti])]
                 ELSE IF st.current_trace_index < 0
                 THEN [st EXCEPT !.current_trace_index = 0,
                                 !.current_preamble = st.pending_preamble,
                                 !.pending_preamble = <<>>,
                                 !.current_frames = Append(st.current_frames, [frame EXCEPT !.trace_index = 0])]
                 ELSE [st EXCEPT !.current_frames = Append(st.current_frames, frame)]

RECURSIVE ParseLoop(_, _)
ParseLoop(st, lines) ==
    IF lines = <<>> THEN st ELSE ParseLoop(ParseStep(st, Head(lines)), Tail(lines))

parse_stack_lines(lines) == flush_current_trace(ParseLoop(ParseInit, lines)).traces

(***************************************************************************)
(* resolver.py                                                             *)
(* A Path is [root, path]: root "rootfs" for a path joined under the       *)
(* rootfs directory, "host" for a path of the host file system.  The run   *)
(* uses one rootfs and the default debug_root rootfs/usr/lib/debug/.build-id*)
(* (qss.main), so the cache keys keep only (elf_path, build_id).           *)
(***************************************************************************)
RootfsPath(p) == [root |-> "rootfs", path |-> p]

HostPath(p) == [root |-> "host", path |-> p]

NoPath == [root |-> "none", path |-> <<>>]

DebugRoot == <<"/usr/lib/debug/.build-id">>

is_file(p) == p \in fs

\* _resolve_elf
resolve_elf(elf_path) ==
    IF is_file(RootfsPath(elf_path)) THEN RootfsPath(elf_path)
    ELSE IF is_file(HostPath(elf_path)) THEN HostPath(elf_path)
    ELSE NoPath

\* _resolve_debug_by_buildid
resolve_debug_by_buildid(build_id) ==
    LET bid == Strip(build_id)
        candidate == RootfsPath(DebugRoot \o <<"/">> \o SubSeq(bid, 1, 2) \o <<"/">>
                                \o SubSeq(bid, 3, Len(bid)) \o <<".debug">>)
    IN  IF build_id = <<>> \/ Len(bid) < 3 THEN NoPath
        ELSE IF is_file(candidate) THEN candidate
        ELSE NoPath

\* resolve_pair without its memo (the memo is rcache, see resolve_elf_paths)
resolve_pair(elf_path, build_id) ==
    [real_elf |-> resolve_elf(elf_path),
     debug_elf |-> IF build_id # <<>> THEN resolve_debug_by_buildid(build_id) ELSE NoPath]

(***************************************************************************)
(* addr2line_runner.py                                                     *)
(***************************************************************************)
LowerAtom(a) ==
    CASE a = "A" -> "a" [] a = "B" -> "b" [] a = "C" -> "c"
      [] a = "D" -> "d" [] a = "E" -> "e" [] a = "F" -> "f"
      [] a = "0X" -> "0x"
      [] OTHER -> a

Lower(s) == [i \in 1..Len(s) |-> LowerAtom(s[i])]

\* _normalize_addr
normalize_addr(addr) ==
    LET s0   == Strip(addr)
        s    == IF At(s0, 1) \notin {"0x", "0X"} THEN <<"0x">> \o s0 ELSE <<"0x">> \o Tail(s0)
        b0   == Tail(s)
        b1   == SubSeq(b0, RunEnd(b0, 1, {"0"}), Len(b0))
        body == IF b1 = <<>> THEN <<"0">> ELSE b1
    IN  IF s0 = <<>> THEN <<>> ELSE <<"0x">> \o Lower(body)

\* _ADDR_RE:  ^0x[0-9a-fA-F]+$
AddrRe(line) ==
    /\ Len(line) >= 2
    /\ line[1] = "0x"
    /\ RunEnd(line, 2, HexAtoms) = Len(line) + 1

\* _choose_executable (prefer_debug is always True in the callers)
choose_executable(elf_file, debug_file) ==
    IF debug_file # NoPath /\ is_file(debug_file) THEN debug_file ELSE elf_file

Unknown == <<<<"?", "?">>, <<"?", "?", ":", "0">>>>

\* an associative list (a Python dict, insertion ordered): sequence of [key, val]
DictHas(d, k) == \E i \in 1..Len(d) : d[i].key = k

DictGet(d, k) == d[CHOOSE i \in 1..Len(d) : d[i].key = k].val

DictSet(d, k, v) ==
    IF DictHas(d, k)
    THEN [i \in 1..Len(d) |-> IF d[i].key = k THEN [key |-> k, val |-> v] ELSE d[i]]
    ELSE Append(d, [key |-> k, val |-> v])

DictKeys(d) == [i \in 1..Len(d) |-> d[i].key]

\* the parsing loop of run_addr2line_multi over the lines of stdout
RECURSIVE A2lBlocks(_, _, _, _)
A2lBlocks(lines, i, current_addr, acc) ==
    IF i > Len(lines) THEN acc
    ELSE LET line == Strip(lines[i])
         IN  IF AddrRe(line)
             THEN A2lBlocks(lines, i + 1, line, IF DictHas(acc, line) THEN acc ELSE DictSet(acc, line, <<>>))
             ELSE IF current_addr = <<>>
             THEN A2lBlocks(lines, i + 1, current_addr, acc)
             ELSE LET func_name == IF line # <<>> THEN line ELSE <<"?", "?">>
                      fl        == IF i + 1 <= Len(lines) THEN Strip(lines[i + 1]) ELSE <<>>
                      file_line == IF fl # <<>> THEN fl ELSE <<"?", "?", ":", "0">>
                      step      == IF i + 1 <= Len(lines) THEN 2 ELSE 1
                  IN  A2lBlocks(lines, i + step, current_addr,
                                DictSet(acc, current_addr,
                                        Append(DictGet(acc, current_addr), <<func_name, file_line>>)))

\* normalized_map of run_addr2line_multi
RECURSIVE NormalizedMap(_, _)
NormalizedMap(raw, acc) ==
    IF raw = <<>> THEN acc
    ELSE LET norm == normalize_addr(Head(raw).key)
             old  == IF DictHas(acc, norm) THEN DictGet(acc, norm) ELSE <<>>
         IN  NormalizedMap(Tail(raw), DictSet(acc, norm, old \o Head(raw).val))

\* the debug information of the files of the model: what addr2line -f -C -i
\* finds in file exe at the address whose normalized text is norm
SymTab(exe, norm) ==
    CASE exe.path = DebugRoot \o <<"/", "a", "b", "/", "1", "2", ".debug">> /\ norm = <<"0x", "1", "0">>
           -> << <<<<"inl">>, <<"a.h", ":", "7">>>>, <<<<"outer">>, <<"b.c", ":", "9">>>> >>
      [] exe.path = <<"/lib/b.so">> /\ norm = <<"0x", "3", "0">>
           -> << <<<<"main2">>, <<"m.c", ":", "3">>>> >>
      [] exe.path = DebugRoot \o <<"/", "a", "a", "/", "0", "d", "6", "e", "0", "0", "1", "1",
                                   "2", "2", "3", "3", "4", "4", ".debug">>
            /\ norm = <<"0x", "1", "f", "d", "b", "8">>
           -> << <<<<"do_work">>, <<"foo.c", ":", "4", "2">>>> >>
      [] OTHER -> <<Unknown>>

\* addr2line -a prints the address as 0x%016x
EchoAddr(addr) ==
    LET body == Tail(normalize_addr(addr))
    IN  <<"0x">> \o [i \in 1..(16 - Len(body)) |-> "0"] \o body

\* stdout of 'addr2line -f -C -i -a -e exe addrs...'
RECURSIVE BackendStdout(_, _)
BackendStdout(exe, addrs) ==
    IF addrs = <<>> THEN <<>>
    ELSE <<EchoAddr(Head(addrs))>>
         \o Flatten(SymTab(exe, normalize_addr(Head(addrs))))
         \o BackendStdout(exe, Tail(addrs))

\* run_addr2line_multi: the dict original address -> frames
run_addr2line_multi(addrs, elf_file, debug_file) ==
    LET Result(nmap) ==
            LET hit(a) == DictHas(nmap, normalize_addr(a)) /\ DictGet(nmap, normalize_addr(a)) # <<>>
                Pick(found) == [i \in 1..Len(found) |->
                                   [key |-> found[i], val |-> DictGet(nmap, normalize_addr(found[i]))]]
            IN  Pick(SelectSeq(addrs, hit))
    IN  IF addrs = <<>> \/ ~backendOk
        THEN <<>>
        ELSE Result(NormalizedMap(A2lBlocks(BackendStdout(choose_executable(elf_file, debug_file), addrs),
                                            1, <<>>, <<>>),
                                  <<>>))

(***************************************************************************)
(* symbolizer.py                                                           *)
(* ch is the pair of module-level caches: ch.rcache is _resolve_cache      *)
(* (filled together with resolver._RESOLVE_CACHE, same keys and values),   *)
(* ch.acache is _addr2line_cache.  Positions in frames are 1-based here;   *)
(* the field frame_index keeps Python's 0-based enumerate index.           *)
(***************************************************************************)
\* SymbolizedFrame(...)
MkSym(frame, trace_index, pos, inlines) ==
    [trace_index |-> trace_index,
     frame_index |-> pos - 1,
     address |-> frame.address,
     inlines |-> inlines,
     raw_line |-> frame.raw_line,
     obj_path |-> frame.obj_path,
     obj_offset |-> frame.obj_offset,
     build_id |-> frame.build_id]

\* _make_unknown_frame
make_unknown_frame(frame, trace_index, pos, with_question) ==
    MkSym(frame, trace_index, pos, IF with_question THEN <<Unknown>> ELSE <<>>)

\* _resolve_elf_paths: the resolved pair and the cache after the call
resolve_elf_paths(frame, rcache) ==
    LET Miss(key, pair) == [pair |-> pair, rcache |-> DictSet(rcache, key, pair)]
        Look(key) == IF DictHas(rcache, key)
                     THEN [pair |-> DictGet(rcache, key), rcache |-> rcache]
                     ELSE Miss(key, resolve_pair(frame.obj_path, frame.build_id))
    IN  IF frame.obj_path = <<>>
        THEN [pair |-> [real_elf |-> NoPath, debug_elf |-> NoPath], rcache |-> rcache]
        ELSE Look(<<frame.obj_path, frame.build_id>>)

\* no group is ever found again: every frame opens a group of its own
NoGroup(groups, real_elf, debug_elf) == {}

\* group_index_map.get((real_elf_key, debug_elf_key))
GroupIndex(groups, real_elf, debug_elf) ==
    {g \in 1..Len(groups) : groups[g].real_elf = real_elf /\ groups[g].debug_elf = debug_elf}

\* one iteration of the first loop of symbolize_trace (frame at position pos)
GroupStep(st, trace, trace_index, pos) ==
    LET Add(frame, rp, addr_for_lookup, G) ==
            IF G = {}
            THEN [st EXCEPT !.rcache = rp.rcache,
                            !.groups = Append(st.groups,
                                              [real_elf |-> rp.pair.real_elf, debug_elf |-> rp.pair.debug_elf,
                                               addr_map |-> <<[key |-> addr_for_lookup, val |-> <<pos>>]>>])]
            ELSE LET g   == CHOOSE x \in G : TRUE
                     am  == st.groups[g].addr_map
                     old == IF DictHas(am, addr_for_lookup) THEN DictGet(am, addr_for_lookup) ELSE <<>>
                 IN  [st EXCEPT !.rcache = rp.rcache,
                                !.groups[g].addr_map = DictSet(am, addr_for_lookup, Append(old, pos))]
        Step(frame, rp, addr_for_lookup) ==
            IF frame.obj_path = <<>> /\ frame.build_id = <<>> /\ frame.obj_offset = <<>>
            THEN [st EXCEPT !.frames_out[pos] = <<make_unknown_frame(frame, trace_index, pos, FALSE)>>]
            ELSE IF rp.pair.real_elf = NoPath
            THEN [st EXCEPT !.rcache = rp.rcache,
                            !.frames_out[pos] = <<make_unknown_frame(frame, trace_index, pos, TRUE)>>]
            ELSE IF DictHas(st.acache, <<rp.pair.real_elf, rp.pair.debug_elf, addr_for_lookup>>)
            THEN [st EXCEPT !.rcache = rp.rcache,
                            !.frames_out[pos] =
                                <<MkSym(frame, trace_index, pos,
                                        DictGet(st.acache, <<rp.pair.real_elf, rp.pair.debug_elf, addr_for_lookup>>))>>]
            ELSE Add(frame, rp, addr_for_lookup, GroupIndex(st.groups, rp.pair.real_elf, rp.pair.debug_elf))
        For(frame) ==
            Step(frame, resolve_elf_paths(frame, st.rcache),
                 IF frame.obj_offset # <<>> THEN frame.obj_offset ELSE frame.address)
    IN  For(trace.frames[pos])

RECURSIVE GroupLoop(_, _, _, _)
GroupLoop(st, trace, trace_index, pos) ==
    IF pos > Len(trace.frames) THEN st
    ELSE GroupLoop(GroupStep(st, trace, trace_index, pos), trace, trace_index, pos + 1)

\* the inlines _symbolize_group gives to address addr
GroupInlines(addr_results, addr) ==
    IF DictHas(addr_results, addr) /\ DictGet(addr_results, addr) # <<>>
    THEN DictGet(addr_results, addr)
    ELSE <<Unknown>>

RECURSIVE GroupCacheStore(_, _, _, _)
GroupCacheStore(acache, g, addr_results, addrs) ==
    IF addrs = <<>> THEN acache
    ELSE GroupCacheStore(IF DictHas(addr_results, Head(addrs)) /\ DictGet(addr_results, Head(addrs)) # <<>>
                         THEN DictSet(acache, <<g.real_elf, g.debug_elf, Head(addrs)>>,
                                      DictGet(addr_results, Head(addrs)))
                         ELSE acache,
                         g, addr_results, Tail(addrs))

\* _symbolize_group and the merge of its result into frames_out
symbolize_group(st, g_idx, g, trace, trace_index) ==
    LET Fan(addrs, addr_results) ==
            LET mine(pos) == {a \in 1..Len(addrs) :
                                 \E k \in 1..Len(g.addr_map[a].val) : g.addr_map[a].val[k] = pos}
            IN  [st EXCEPT !.acache = GroupCacheStore(st.acache, g, addr_results, addrs),
                           !.calls = Append(st.calls, [trace_index |-> trace_index, group_index |-> g_idx,
                                                       real_elf |-> g.real_elf, debug_elf |-> g.debug_elf,
                                                       addrs |-> addrs]),
                           !.frames_out = [pos \in DOMAIN st.frames_out |->
                                IF mine(pos) # {}
                                THEN <<MkSym(trace.frames[pos], trace_index, pos,
                                             GroupInlines(addr_results, addrs[CHOOSE a \in mine(pos) : TRUE]))>>
                                ELSE st.frames_out[pos]]]
    IN  Fan(DictKeys(g.addr_map), run_addr2line_multi(DictKeys(g.addr_map), g.real_elf, g.debug_elf))

\* the order in which as_completed yields the futures of n groups: the group
\* positions in the order of rank (a permutation of 1..MaxGroups), then any
\* further groups in submission order
CompletionOrder(rank, n) ==
    SelectSeq(rank, LAMBDA g : g <= n) \o [k \in 1..(IF n > Len(rank) THEN n - Len(rank) ELSE 0) |-> Len(rank) + k]

\* the futures of the thread pool, taken in the order they complete
RECURSIVE GroupsRun(_, _, _, _, _)
GroupsRun(st, groups, order, trace, trace_index) ==
    IF order = <<>> THEN st
    ELSE GroupsRun(symbolize_group(st, Head(order) - 1, groups[Head(order)], trace, trace_index),
                   groups, Tail(order), trace, trace_index)

\* symbolize_trace: the SymbolizedTrace, the caches after the call and the backend calls made
symbolize_trace(trace, trace_index, ch, rank) ==
    LET Fill(st2) ==
            [trace |-> [trace_index |-> trace_index,
                        frames |-> [pos \in 1..Len(trace.frames) |->
                                       IF st2.frames_out[pos] = <<>>
                                       THEN make_unknown_frame(trace.frames[pos], trace_index, pos, TRUE)
                                       ELSE st2.frames_out[pos][1]],
                        preamble |-> trace.preamble],
             ch |-> [rcache |-> st2.rcache, acache |-> st2.acache],
             calls |-> st2.calls]
        Run(st1) == Fill(GroupsRun(st1, st1.groups, CompletionOrder(rank, Len(st1.groups)), trace, trace_index))
    IN  Run(GroupLoop([frames_out |-> [pos \in 1..Len(trace.frames) |-> <<>>],
                       groups |-> <<>>, rcache |-> ch.rcache, acache |-> ch.acache, calls |-> <<>>],
                      trace, trace_index, 1))

\* symbolize_all: the list of SymbolizedTrace, the caches after the call and
\* the backend calls made
RECURSIVE SymbolizeFrom(_, _, _, _)
SymbolizeFrom(ts, t_index, acc, rank) ==
    LET Go(r) == SymbolizeFrom(ts, t_index + 1,
                               [out |-> Append(acc.out, r.trace), ch |-> r.ch, calls |-> acc.calls \o r.calls],
                               rank)
    IN  IF t_index > Len(ts) THEN acc
        ELSE Go(symbolize_trace(ts[t_index], t_index - 1, acc.ch, rank))

symbolize_all(ts, ch, rank) == SymbolizeFrom(ts, 1, [out |-> <<>>, ch |-> ch, calls |-> <<>>], rank)

(***************************************************************************)
(* output_formatter.py                                                     *)
(***************************************************************************)
\* _FILELINE_AT_END_RE.search(s):  :[0-9?]+(\s*)$
FileLineAtEndRe(s) ==
    LET e == Len(RStrip(s))
    IN  \E c \in 1..(e - 1) : s[c] = ":" /\ \A k \in (c + 1)..e : s[k] \in DigitAtoms \cup {"?"}

\* _looks_fully_symbolized
looks_fully_symbolized(raw_line) ==
    LET s == Strip(raw_line)
    IN  /\ \E i \in 2..(Len(s) - 1) : s[i - 1] = " " /\ s[i] = "in" /\ s[i + 1] = " "
        /\ FileLineAtEndRe(s)

\* _leading_indent
leading_indent(raw_line) == SubSeq(raw_line, 1, RunEnd(raw_line, 1, WsAtoms) - 1)

\* _rewrite_raw_line_with_index that leaves the '#N' of the line as it is
rewrite_keeps_index(raw_line, new_index) == raw_line

\* _rewrite_raw_line_with_index;  _FRAME_PREFIX_RE:  ^(\s*)#\d+(\s+)(.*)$
rewrite_raw_line_with_index(raw_line, new_index) ==
    LET h  == RunEnd(raw_line, 1, WsAtoms)
        d1 == RunEnd(raw_line, h + 1, DigitAtoms)
        w1 == RunEnd(raw_line, d1, WsAtoms)
    IN  IF At(raw_line, h) = "#" /\ d1 > h + 1 /\ w1 > d1
        THEN SubSeq(raw_line, 1, h - 1) \o <<"#">> \o ToDigits(new_index)
             \o SubSeq(raw_line, d1, w1 - 1) \o SubSeq(raw_line, w1, Len(raw_line))
        ELSE leading_indent(raw_line) \o <<"#">> \o ToDigits(new_index) \o <<" ">> \o LStrip(raw_line)

\* _is_unknown_file
is_unknown_file(loc) == loc = <<>> \/ Literal(Strip(loc), 1, <<"?", "?">>)

\* _normalize_offset;  _HEX_OFFSET_RE.search:  0x[0-9a-fA-F]+
normalize_offset(raw_offset) ==
    LET P == {p \in 1..Len(raw_offset) : raw_offset[p] = "0x" /\ RunEnd(raw_offset, p + 1, HexAtoms) > p + 1}
    IN  IF P = {} THEN None
        ELSE SubSeq(raw_offset, SetMin(P), RunEnd(raw_offset, SetMin(P) + 1, HexAtoms) - 1)

\* _build_elf_hint
build_elf_hint(frame) ==
    LET norm_offset == normalize_offset(frame.obj_offset)
        base == IF norm_offset # <<>>
                THEN <<"(">> \o frame.obj_path \o <<"+">> \o norm_offset \o <<")">>
                ELSE <<"(">> \o frame.obj_path \o <<")">>
    IN  IF frame.obj_path = <<>> THEN None
        ELSE IF frame.build_id # <<>>
        THEN base \o <<" ", "(", "BuildId", ":", " ">> \o frame.build_id \o <<")">>
        ELSE base

OrUnknown(x) == IF x = <<>> THEN <<"?", "?">> ELSE x

\* "{indent}#{current_index} {frame.address} in {func} at {fl}"
FrameText(indent, index, address, func, fl) ==
    indent \o <<"#">> \o ToDigits(index) \o <<" ">> \o address
    \o <<" ", "in", " ">> \o func \o <<" ", "at", " ">> \o fl

WithHint(line, hint) == IF hint # <<>> THEN line \o <<" ">> \o hint ELSE line

\* the lines one frame contributes in format_symbolized_trace, numbered from current_index
FrameLines(frame, current_index) ==
    LET raw    == frame.raw_line
        indent == leading_indent(raw)
        func0  == OrUnknown(frame.inlines[1][1])
        fl0    == OrUnknown(frame.inlines[1][2])
        hint_for_first == IF is_unknown_file(fl0) THEN build_elf_hint(frame) ELSE None
    IN  IF raw # <<>> /\ looks_fully_symbolized(raw)
        THEN <<rewrite_raw_line_with_index(raw, current_index)>>
        ELSE IF frame.obj_path = <<>> /\ frame.inlines = <<>>
        THEN IF raw # <<>>
             THEN <<rewrite_raw_line_with_index(raw, current_index)>>
             ELSE <<FrameText(indent, current_index, frame.address, <<"?", "?">>, <<"?", "?">>)>>
        ELSE IF frame.inlines = <<>>
        THEN <<WithHint(FrameText(indent, current_index, frame.address, <<"?", "?">>, <<"?", "?">>),
                        build_elf_hint(frame))>>
        ELSE <<WithHint(FrameText(indent, current_index, frame.address, func0, fl0), hint_for_first)>>
             \o [k \in 1..(Len(frame.inlines) - 1) |->
                    FrameText(indent, current_index + k, frame.address,
                              OrUnknown(frame.inlines[k + 1][1]), OrUnknown(frame.inlines[k + 1][2]))]

RECURSIVE FormatFrames(_, _)
FormatFrames(frames, current_index) ==
    IF frames = <<>> THEN <<>>
    ELSE LET ls == FrameLines(Head(frames), current_index)
         IN  ls \o FormatFrames(Tail(frames), current_index + Len(ls))

\* format_symbolized_trace
format_symbolized_trace(trace, include_preamble) ==
    (IF include_preamble THEN trace.preamble ELSE <<>>) \o FormatFrames(trace.frames, 0) \o << <<>> >>

\* format_all_traces
RECURSIVE format_all_traces(_, _)
format_all_traces(ts, include_preamble) ==
    IF ts = <<>> THEN <<>>
    ELSE format_symbolized_trace(Head(ts), include_preamble) \o format_all_traces(Tail(ts), include_preamble)

(***************************************************************************)
(* merge_original.py                                                       *)
(* i is the 1-based position of the next original line to handle.  Line    *)
(* terminators are not modelled: _normalize_line is the identity on a line.*)
(***************************************************************************)
\* the loop body with the cursor moved by the number of rendered lines, not of source frames
MergeStepRendered(m, original_lines, trace) ==
    LET n         == Len(original_lines)
        first_raw == trace.frames[1].raw_line
        F         == {j \in m.i..n : original_lines[j] = first_raw}
        start     == SetMin(F)
        count     == Len(FormatFrames(trace.frames, 0))
        after     == IF start + count <= n + 1 THEN start + count ELSE n + 1
    IN  IF m.stopped \/ trace.frames = <<>> \/ first_raw = <<>>
        THEN m
        ELSE IF F = {}
        THEN [m EXCEPT !.out = m.out \o SubSeq(original_lines, m.i, n),
                       !.i = n + 1,
                       !.stopped = TRUE]
        ELSE [m EXCEPT !.out = m.out \o SubSeq(original_lines, m.i, start - 1)
                                     \o format_symbolized_trace(trace, FALSE),
                       !.i = after]

\* the loop body that, when the anchor is not found, skips the trace and goes on with the next
MergeStepSkipsAhead(m, original_lines, trace) ==
    LET n         == Len(original_lines)
        first_raw == trace.frames[1].raw_line
        F         == {j \in m.i..n : original_lines[j] = first_raw}
        start     == SetMin(F)
        after     == IF start + Len(trace.frames) <= n + 1 THEN start + Len(trace.frames) ELSE n + 1
    IN  IF m.stopped \/ trace.frames = <<>> \/ first_raw = <<>> \/ F = {}
        THEN m
        ELSE [m EXCEPT !.out = m.out \o SubSeq(original_lines, m.i, start - 1)
                                     \o format_symbolized_trace(trace, FALSE),
                       !.i = after]

\* one iteration of the loop over sym_traces in merge_original_file
MergeStep(m, original_lines, trace) ==
    LET n         == Len(original_lines)
        first_raw == trace.frames[1].raw_line
        F         == {j \in m.i..n : original_lines[j] = first_raw}
        start     == SetMin(F)
        after     == IF start + Len(trace.frames) <= n + 1 THEN start + Len(trace.frames) ELSE n + 1
    IN  IF m.stopped \/ trace.frames = <<>> \/ first_raw = <<>>
        THEN m
        ELSE IF F = {}
        THEN [m EXCEPT !.out = m.out \o SubSeq(original_lines, m.i, n),
                       !.i = n + 1,
                       !.stopped = TRUE]
        ELSE [m EXCEPT !.out = m.out \o SubSeq(original_lines, m.i, start - 1)
                                     \o format_symbolized_trace(trace, FALSE),
                       !.i = after]

RECURSIVE MergeLoop(_, _, _)
MergeLoop(m, original_lines, ts) ==
    IF ts = <<>> THEN m ELSE MergeLoop(MergeStep(m, original_lines, Head(ts)), original_lines, Tail(ts))

\* merge_original_file: the lines written to dst_path
merge_original_file(original_lines, sym_traces) ==
    LET m == MergeLoop([out |-> <<>>, i |-> 1, stopped |-> FALSE], original_lines, sym_traces)
    IN  m.out \o SubSeq(original_lines, m.i, Len(original_lines))

(***************************************************************************)
(* quick_multi_symbolizer_int1.py: transform_text                          *)
(* Here a text is one sequence of atoms and a line keeps its terminator    *)
(* (the last line of a text may have none).  cache is a dict               *)
(* OriginKey(orig_elf, offset) -> SymbolInfo.frames; the function names    *)
(* and locations it holds come from lines of addr2line output and hold no  *)
(* line terminator.                                                        *)
(***************************************************************************)
\* the line boundaries of str.splitlines: "\n" and, standing for the others
\* (\r, \v, \f, \x1c, \x1d, \x1e, \x85, \u2028, \u2029), the form feed
LineBoundaries == {"\n", "\f"}

\* text.splitlines(keepends=True)
RECURSIVE splitlines(_)
splitlines(text) ==
    LET Cut(e) == <<SubSeq(text, 1, e)>> \o splitlines(SubSeq(text, e + 1, Len(text)))
    IN  IF text = <<>> THEN <<>>
        ELSE Cut(SetMin({j \in 1..Len(text) : j = Len(text) \/ text[j] \in LineBoundaries}))

\* atoms that begin with a character that is not a word character (\w)
NonWordAtoms == WsAtoms \cup PathAtoms \cup {"", "#", "(", ")", "+", ":", "-", "?"}

\* STACK_LINE_PREFIX.match(line):  ^\s*#\d+\b
StackLinePrefix(line) ==
    LET P(h, d1) == At(line, h) = "#" /\ d1 > h + 1 /\ At(line, d1) \in NonWordAtoms
    IN  P(RunEnd(line, 1, WsAtoms), RunEnd(line, RunEnd(line, 1, WsAtoms) + 1, DigitAtoms))

\* int(m_index.group(2)) of  ^(\s*)#(\d+)\b
OrigIdx(line) ==
    DecVal(SubSeq(line, RunEnd(line, 1, WsAtoms) + 1,
                  RunEnd(line, RunEnd(line, 1, WsAtoms) + 1, DigitAtoms) - 1))

\* '\+(0x[0-9A-Fa-f]+)\)' of STACK_ENTRY_PATTERN at position q: the position after ')' or 0
EntryTailAt(s, q) ==
    LET E(x1) == IF At(s, q) = "+" /\ At(s, q + 1) = "0x" /\ x1 > q + 2 /\ At(s, x1) = ")"
                 THEN x1 + 1 ELSE 0
    IN  E(RunEnd(s, q + 2, HexAtoms))

\* STACK_ENTRY_PATTERN tried at position p:  \((/[^()]+?)\+(0x[0-9A-Fa-f]+)\)
\* the positions q of the '+' of the matches that start at p
EntryPlusAt(s, p) ==
    IF At(s, p) = "(" /\ At(s, p + 1) \in PathAtoms
    THEN {q \in (p + 2)..Len(s) : /\ \A k \in (p + 2)..(q - 1) : s[k] \notin {"(", ")"}
                                  /\ EntryTailAt(s, q) > 0}
    ELSE {}

\* STACK_ENTRY_PATTERN.search(line)
StackEntryPattern(line) ==
    LET M(p, q) == [matched |-> TRUE, start |-> p, end |-> EntryTailAt(line, q),
                    path |-> SubSeq(line, p + 1, q - 1),
                    offset |-> SubSeq(line, q + 1, EntryTailAt(line, q) - 2)]
        S(P) == IF P = {}
                THEN [matched |-> FALSE, start |-> 0, end |-> 0, path |-> <<>>, offset |-> <<>>]
                ELSE M(SetMin(P), SetMin(EntryPlusAt(line, SetMin(P))))
    IN  S({p \in 1..Len(line) : EntryPlusAt(line, p) # {}})

\* " ".join(s.split())
RECURSIVE JoinSplit(_)
JoinSplit(s) ==
    LET W(t, e) == IF e > Len(t) THEN t
                   ELSE SubSeq(t, 1, e - 1) \o <<" ">> \o JoinSplit(SubSeq(t, e, Len(t)))
        T(t) == IF t = <<>> THEN <<>>
                ELSE W(t, SetMin({j \in 1..(Len(t) + 1) : j = Len(t) + 1 \/ IsWs(t[j])}))
    IN  T(Strip(s))

\* (f.strip() == "??" and l.strip() in ("??:0", "?:0"))
FullyUnknown(fr) ==
    /\ Strip(fr[1]) = <<"?", "?">>
    /\ Strip(fr[2]) \in {<<"?", "?", ":", "0">>, <<"?", ":", "0">>}

\* step 5:  re.match(r"^(\s*)#\d+\s+(0x[0-9A-Fa-f]+)(.*)$", line)
HeadRe(line) ==
    LET R(h, d1, w1, x1) ==
            IF At(line, h) = "#" /\ d1 > h + 1 /\ w1 > d1 /\ At(line, w1) = "0x" /\ x1 > w1 + 1
            THEN [matched |-> TRUE, indent |-> SubSeq(line, 1, h - 1), addr |-> SubSeq(line, w1, x1 - 1)]
            ELSE [matched |-> FALSE, indent |-> <<>>, addr |-> <<>>]
        W(h, d1, w1) == R(h, d1, w1, RunEnd(line, w1 + 1, HexAtoms))
        D(h, d1) == W(h, d1, RunEnd(line, d1, WsAtoms))
        H(h) == D(h, RunEnd(line, h + 1, DigitAtoms))
    IN  H(RunEnd(line, 1, WsAtoms))

\* step 5, no match:  re.search(r"(0x[0-9A-Fa-f]+)", line), "0x0" when there is none
FirstHex(line) ==
    LET H(P) == IF P = {} THEN <<"0x", "0">>
                ELSE SubSeq(line, SetMin(P), RunEnd(line, SetMin(P) + 1, HexAtoms) - 1)
    IN  H({p \in 1..Len(line) : line[p] = "0x" /\ RunEnd(line, p + 1, HexAtoms) > p + 1})

\* step 7: new_line of frame number idx (from 0) of one stack line
EmitLine(prefix, idx, fr, all_unknown, original_tail_full, tail_after_paren) ==
    LET L(func_s, loc_s) ==
            IF all_unknown
            THEN IF idx = 0
                 THEN prefix \o <<" ", "in", " ", "?", "?", " ", "?", "?", ":", "0", " ">>
                      \o LStrip(original_tail_full)
                 ELSE prefix \o <<" ", "in", " ", "?", "?", " ", "?", "?", ":", "0", "\n">>
            ELSE IF func_s = <<"?", "?">> /\ loc_s \in {<<"?", "?", ":", "0">>, <<"?", ":", "0">>}
            THEN prefix \o <<" ", "in", " ", "?", "?", " ", "?", "?", ":", "0", "\n">>
            ELSE IF idx = 0 /\ tail_after_paren # <<>>
            THEN prefix \o <<" ", "in", " ">> \o func_s \o <<" ">> \o loc_s \o <<" ">> \o tail_after_paren
            ELSE prefix \o <<" ", "in", " ">> \o func_s \o <<" ">> \o loc_s \o <<"\n">>
    IN  L(IF Strip(fr[1]) # <<>> THEN Strip(fr[1]) ELSE <<"?", "?">>,
          IF Strip(fr[2]) # <<>> THEN Strip(fr[2]) ELSE <<"?", "?", ":", "0">>)

\* steps 4-7 for a stack line with the '(path+0xOFF)' match m: the lines appended
EntryLines(line, m, next_index, cache) ==
    LET Emit(frames, hd) ==
            [k \in 1..Len(frames) |->
                EmitLine(hd.indent \o <<"#">> \o ToDigits(next_index + k - 1) \o <<" ">>
                         \o (IF hd.matched THEN hd.addr ELSE FirstHex(line)),
                         k - 1, frames[k],
                         \A j \in 1..Len(frames) : FullyUnknown(frames[j]),
                         SubSeq(line, m.start, Len(line)),
                         LStrip(SubSeq(line, m.end, Len(line))))]
        Key(key) == Emit(IF DictHas(cache, key) /\ DictGet(cache, key) # <<>>
                         THEN DictGet(cache, key) ELSE <<Unknown>>,
                         HeadRe(line))
    IN  Key(<<JoinSplit(m.path), m.offset>>)

\* step 3, no '(path+0xOFF)':  m_head = ^(\s*)#\d+\b(.*)$ ; '#n' renumbered, the rest kept
RenumberOnly(line, next_index) ==
    LET N(d1, e) == SubSeq(line, 1, RunEnd(line, 1, WsAtoms) - 1) \o <<"#">> \o ToDigits(next_index)
                    \o <<" ">> \o LStrip(SubSeq(line, d1, e)) \o <<"\n">>
    IN  N(RunEnd(line, RunEnd(line, 1, WsAtoms) + 1, DigitAtoms),
          IF At(line, Len(line)) = "\n" THEN Len(line) - 1 ELSE Len(line))

\* one iteration of the loop of transform_text: the lines appended to out_lines
TransformLine(line, next_index0, cache) ==
    LET Out(m, next_index) ==
            IF ~m.matched
            THEN <<RenumberOnly(line, next_index)>>
            ELSE EntryLines(line, m, next_index, cache)
    IN  IF ~StackLinePrefix(line)
        THEN <<line>>
        ELSE Out(StackEntryPattern(line), IF OrigIdx(line) = 0 THEN 0 ELSE next_index0)

RECURSIVE TransformLoop(_, _, _)
TransformLoop(lines, next_index, cache) ==
    LET Go(out) == out \o TransformLoop(Tail(lines),
                                        IF ~StackLinePrefix(Head(lines)) THEN next_index
                                        ELSE (IF OrigIdx(Head(lines)) = 0 THEN 0 ELSE next_index) + Len(out),
                                        cache)
    IN  IF lines = <<>> THEN <<>> ELSE Go(TransformLine(Head(lines), next_index, cache))

\* transform_text: "".join(out_lines)
transform_text(text, cache) == Flatten(TransformLoop(splitlines(text), 0, cache))

(***************************************************************************)
(* FindDebugElfsforMain.py                                                 *)
(*                                                                         *)
(* A path is the sequence of its components from the host root, each a     *)
(* string.  tree is the host filesystem: a set of nodes                    *)
(* [path, kind ("file" / "link"), size, elf, build_id, abs, target]; the   *)
(* proper prefixes of node paths are directories.  rootfs_real is /r.      *)
(***************************************************************************)
MaxLinkHops == 3

rootfs_real == <<"r">>

DotDot == ".."

\* os.path.normpath of an absolute path: '..' removes the component before it
RECURSIVE NormFrom(_, _)
NormFrom(done, rest) ==
    IF rest = <<>> THEN done
    ELSE IF Head(rest) = DotDot
    THEN NormFrom(IF done = <<>> THEN <<>> ELSE SubSeq(done, 1, Len(done) - 1), Tail(rest))
    ELSE NormFrom(Append(done, Head(rest)), Tail(rest))

normpath(p) == NormFrom(<<>>, p)

dirname(p) == SubSeq(p, 1, Len(p) - 1)

HasNode(t, p) == \E n \in t : n.path = p

NodeAt(t, p) == CHOOSE n \in t : n.path = p

IsDir(t, p) == \E n \in t : Len(n.path) > Len(p) /\ SubSeq(n.path, 1, Len(p)) = p

\* os.path.lexists / os.path.islink / os.readlink
lexists(t, p) == HasNode(t, normpath(p)) \/ IsDir(t, normpath(p))

islink(t, p) == HasNode(t, normpath(p)) /\ NodeAt(t, normpath(p)).kind = "link"

\* the path the host resolves p to, following every symbolic link (an absolute
\* link target is a host path); ok is FALSE for a dangling link or a link loop
RECURSIVE HostResolve(_, _, _)
HostResolve(t, p, hops) ==
    LET Follow(n) == IF hops = 0 THEN [ok |-> FALSE, path |-> n.path]
                     ELSE HostResolve(t, IF n.abs THEN n.target ELSE dirname(n.path) \o n.target, hops - 1)
        At1(q) == IF HasNode(t, q)
                  THEN IF NodeAt(t, q).kind = "link" THEN Follow(NodeAt(t, q)) ELSE [ok |-> TRUE, path |-> q]
                  ELSE [ok |-> IsDir(t, q), path |-> q]
    IN  At1(normpath(p))

\* os.path.exists / os.path.realpath / os.path.getsize
exists(t, p) == HostResolve(t, p, MaxLinkHops).ok

realpath(t, p) == HostResolve(t, p, MaxLinkHops).path

getsize(t, p) == IF HasNode(t, realpath(t, p)) THEN NodeAt(t, realpath(t, p)).size ELSE 0

\* os.path.relpath(abs_path, rootfs): '..' for each component of rootfs that is not shared
RECURSIVE CommonLen(_, _)
CommonLen(a, b) ==
    IF a = <<>> \/ b = <<>> \/ Head(a) # Head(b) THEN 0 ELSE 1 + CommonLen(Tail(a), Tail(b))

relpath(abs_path, rootfs) ==
    [i \in 1..(Len(rootfs) - CommonLen(abs_path, rootfs)) |-> DotDot]
    \o SubSeq(abs_path, CommonLen(abs_path, rootfs) + 1, Len(abs_path))

\* to_rootfs_rel: '/' + relpath(abs_path, rootfs)
to_rootfs_rel(rootfs, abs_path) == relpath(abs_path, rootfs)

\* normalize_inside_rootfs, for a path given as '/...'
normalize_inside_rootfs(rootfs, path) == rootfs \o path

StartsWith(p, prefix) == Len(p) > Len(prefix) /\ SubSeq(p, 1, Len(prefix)) = prefix

\* path + ".debug" as text: the suffix goes on the last component
WithDebugSuffix(p) == [p EXCEPT ![Len(p)] = @ \o ".debug"]

\* generate_name_based_candidates
generate_name_based_candidates(real_rel) ==
    << [kind |-> "same-dir", rel |-> WithDebugSuffix(real_rel), priority |-> 1],
       [kind |-> "overlay", rel |-> <<"usr", "lib", "debug">> \o WithDebugSuffix(real_rel), priority |-> 2] >>
    \o (IF StartsWith(real_rel, <<"usr">>)
        THEN << [kind |-> "overlay-no-usr",
                 rel |-> <<"usr", "lib", "debug">> \o WithDebugSuffix(Tail(real_rel)), priority |-> 2] >>
        ELSE <<>>)
    \o (IF StartsWith(real_rel, <<"usr", "lib64">>) \/ StartsWith(real_rel, <<"lib64">>)
        THEN << [kind |-> "tizen-lib64",
                 rel |-> <<"usr", "lib", "debug", "lib64.tizen-debug">>
                         \o << real_rel[Len(real_rel)] \o ".debug" >>, priority |-> 2] >>
        ELSE <<>>)

\* generate_buildid_candidates: <root>/<build_id[:2]>/<build_id[2:]>.debug
generate_buildid_candidates(build_id, debug_roots) ==
    [i \in 1..Len(debug_roots) |->
        [kind |-> "buildid",
         abs |-> debug_roots[i] \o << Text(SubSeq(build_id, 1, 2)), Text(SubSeq(build_id, 3, Len(build_id))) \o ".debug" >>,
         priority |-> 3]]

NotFound == [found |-> FALSE]

\* resolve_buildid_candidate; NotFound is None
resolve_buildid_candidate(t, rootfs, cand) ==
    LET Result(debug_abs) ==
            IF ~exists(t, debug_abs) THEN NotFound
            ELSE [found |-> TRUE, kind |-> "buildid", abs |-> realpath(t, debug_abs),
                  rel |-> to_rootfs_rel(rootfs, realpath(t, debug_abs)), priority |-> 3, via |-> "buildid"]
        Link(n) == IF n.abs THEN rootfs \o n.target
                   ELSE normpath(dirname(cand.abs) \o n.target)
    IN  IF ~lexists(t, cand.abs) THEN NotFound
        ELSE IF islink(t, cand.abs) THEN Result(Link(NodeAt(t, normpath(cand.abs))))
        ELSE Result(cand.abs)

\* the candidates list of find_debug_for_main before 'Deduplicate by real_abs'
NameCandidates(t, rootfs, main_rel) ==
    LET cs == generate_name_based_candidates(main_rel)
        C(nc, debug_abs) == [kind |-> nc.kind, priority |-> nc.priority, abs |-> realpath(t, debug_abs),
                             rel |-> to_rootfs_rel(rootfs, realpath(t, debug_abs)),
                             via |-> nc.kind, size |-> getsize(t, debug_abs)]
        Ex(i) == exists(t, normalize_inside_rootfs(rootfs, cs[i].rel))
        Keep == SelectSeq([i \in 1..Len(cs) |-> i], Ex)
    IN  [k \in 1..Len(Keep) |-> C(cs[Keep[k]], normalize_inside_rootfs(rootfs, cs[Keep[k]].rel))]

BuildidCandidates(t, rootfs, build_id, debug_roots) ==
    LET cs == generate_buildid_candidates(build_id, [i \in 1..Len(debug_roots) |->
                                                        normalize_inside_rootfs(rootfs, debug_roots[i])])
        R(i) == resolve_buildid_candidate(t, rootfs, cs[i])
        Ok(i) == R(i).found
        Keep == SelectSeq([i \in 1..Len(cs) |-> i], Ok)
        C(resolved) == [kind |-> "buildid", priority |-> resolved.priority, abs |-> realpath(t, resolved.abs),
                        rel |-> to_rootfs_rel(rootfs, realpath(t, resolved.abs)),
                        via |-> resolved.via, size |-> getsize(t, resolved.abs)]
    IN  [k \in 1..Len(Keep) |-> C(R(Keep[k]))]

\* 'Deduplicate by real_abs': one candidate per real path, in order of first
\* appearance, replaced by a later one of higher priority (or equal priority and larger size)
RECURSIVE Deduplicate(_, _)
Deduplicate(unique, cands) ==
    LET c == Head(cands)
        Same(i) == unique[i].abs = c.abs
        Better(old) == c.priority > old.priority \/ (c.priority = old.priority /\ c.size > old.size)
        Put(I) == IF I = {} THEN Append(unique, c)
                  ELSE [i \in 1..Len(unique) |-> IF i \in I /\ Better(unique[i]) THEN c ELSE unique[i]]
    IN  IF cands = <<>> THEN unique
        ELSE Deduplicate(Put({i \in 1..Len(unique) : Same(i)}), Tail(cands))

NoBest == [found |-> FALSE]

\* 'Pick best candidate' that compares the sizes before the priorities
RECURSIVE PickBestBySize(_, _)
PickBestBySize(best, cands) ==
    LET c == Head(cands)
    IN  IF cands = <<>> THEN best
        ELSE IF ~best.found THEN PickBestBySize([found |-> TRUE, c |-> c], Tail(cands))
        ELSE IF c.size > best.c.size
                \/ (c.size = best.c.size /\ c.priority > best.c.priority)
        THEN PickBestBySize([found |-> TRUE, c |-> c], Tail(cands))
        ELSE PickBestBySize(best, Tail(cands))

\* 'Pick best candidate'
RECURSIVE PickBest(_, _)
PickBest(best, cands) ==
    LET c == Head(cands)
    IN  IF cands = <<>> THEN best
        ELSE IF ~best.found THEN PickBest([found |-> TRUE, c |-> c], Tail(cands))
        ELSE IF c.priority > best.c.priority
                \/ (c.priority = best.c.priority /\ c.size > best.c.size)
        THEN PickBest([found |-> TRUE, c |-> c], Tail(cands))
        ELSE PickBest(best, Tail(cands))

\* find_debug_for_main, main_path given as '/...'
find_debug_for_main(t, rootfs, main_path, debug_roots) ==
    LET main_abs == rootfs \o main_path
        Empty(abs, rel, elf) == [main_abs |-> abs, main_rel |-> rel, is_elf |-> elf, build_id |-> None,
                                 candidates |-> <<>>, best |-> NoBest]
        Found(abs, rel, build_id, final) ==
            [main_abs |-> abs, main_rel |-> rel, is_elf |-> TRUE, build_id |-> build_id,
             candidates |-> final, best |-> PickBest(NoBest, final)]
        Real(abs) ==
            LET n == NodeAt(t, abs)
                rel == to_rootfs_rel(rootfs, abs)
            IN  IF ~(HasNode(t, abs) /\ n.elf) THEN Empty(abs, rel, FALSE)
                ELSE IF n.build_id = <<>> THEN Empty(abs, rel, TRUE)
                ELSE Found(abs, rel, n.build_id,
                           Deduplicate(<<>>, NameCandidates(t, rootfs, rel)
                                             \o BuildidCandidates(t, rootfs, n.build_id, debug_roots)))
    IN  IF ~exists(t, main_abs) THEN Empty(main_abs, <<>>, FALSE)
        ELSE Real(realpath(t, main_abs))

(***************************************************************************)
(* quick_multi_symbolizer_int1.py: origins, cache store, targets, backend  *)
(*                                                                         *)
(* An OriginKey is <<orig_elf, offset>>; origins, caches and the rows of   *)
(* the SQLite table are associative lists key -> value in insertion order. *)
(***************************************************************************)
\* STACK_ENTRY_PATTERN.finditer(line)
RECURSIVE StackEntries(_)
StackEntries(line) ==
    LET Rest(m) == IF ~m.matched THEN <<>>
                   ELSE <<m>> \o StackEntries(SubSeq(line, m.end, Len(line)))
    IN  Rest(StackEntryPattern(line))

\* BUILD_ID_PATTERN tried at position p:  \((?:[Bb]uild[- ]?id)\s*:\s*([0-9A-Fa-f]+)\)
\* the build-id matched there, <<>> when there is no match
BuildIdAt(s, p) ==
    LET H(h0, h1) == IF h1 > h0 /\ At(s, h1) = ")" THEN SubSeq(s, h0, h1 - 1) ELSE <<>>
        C(c) == IF At(s, c) = ":"
                THEN H(RunEnd(s, c + 1, WsAtoms), RunEnd(s, RunEnd(s, c + 1, WsAtoms), HexAtoms))
                ELSE <<>>
        I(i) == C(RunEnd(s, i, WsAtoms))
    IN  IF At(s, p) # "(" THEN <<>>
        ELSE IF At(s, p + 1) \in {"Buildid", "buildid"} THEN I(p + 2)
        ELSE IF At(s, p + 1) \in {"Build", "build"} /\ At(s, p + 2) = "id" THEN I(p + 3)
        ELSE IF At(s, p + 1) \in {"Build", "build"} /\ At(s, p + 2) \in {"-", " "} /\ At(s, p + 3) = "id"
        THEN I(p + 4)
        ELSE <<>>

\* BUILD_ID_PATTERN.search(line): group(1), None when there is no match
BuildIdPattern(line) ==
    LET S(Q) == IF Q = {} THEN None ELSE BuildIdAt(line, SetMin(Q))
    IN  S({p \in 1..Len(line) : BuildIdAt(line, p) # <<>>})

\* collect_origins over the lines of the input file: key -> OriginInfo.build_id
RECURSIVE CollectLine(_, _, _)
CollectLine(origins, ms, build_id) ==
    LET Add(key) == IF DictHas(origins, key) THEN origins ELSE DictSet(origins, key, build_id)
    IN  IF ms = <<>> THEN origins
        ELSE CollectLine(Add(<<JoinSplit(Head(ms).path), Head(ms).offset>>), Tail(ms), build_id)

RECURSIVE CollectFrom(_, _)
CollectFrom(origins, lines) ==
    IF lines = <<>> THEN origins
    ELSE CollectFrom(CollectLine(origins, StackEntries(Head(lines)), BuildIdPattern(Head(lines))),
                     Tail(lines))

collect_origins(lines) == CollectFrom(<<>>, lines)

\* load_cache_from_db: one (func, loc) item of a row, as it is put in the cache
LoadedFrame(item) ==
    LET f0 == IF item[1] = <<>> THEN <<"?", "?">> ELSE item[1]
        l0 == IF item[2] = <<>> THEN <<"?", "?", ":", "0">> ELSE item[2]
    IN  << IF f0 = <<"?", "?", "?">> THEN <<"?", "?">> ELSE f0,
           IF l0 = <<"?", "?">> THEN <<"?", "?", ":", "0">> ELSE l0 >>

\* load_cache_from_db: the cache read from the rows of the table
load_cache_from_db(rows) ==
    [i \in 1..Len(rows) |->
        [key |-> rows[i].key,
         val |-> IF rows[i].val = <<>> THEN <<Unknown>>
                 ELSE [k \in 1..Len(rows[i].val) |-> LoadedFrame(rows[i].val[k])]]]

\* save_cache_to_db: INSERT OR REPLACE of every new item into the table
RECURSIVE save_cache_to_db(_, _)
save_cache_to_db(rows, new_items) ==
    IF new_items = <<>> THEN rows
    ELSE save_cache_to_db(DictSet(rows, Head(new_items).key, Head(new_items).val), Tail(new_items))

\* apply_rootfs
apply_rootfs(logical_path) == RootfsPath(logical_path)

\* the file holds a section .gnu_debuglink that names LinkName
HasDebuglink(real_elf) == [root |-> ".gnu_debuglink", path |-> real_elf.path] \in fs

LinkName == <<"a.so.debug">>

\* the non-empty lines of 'readelf --string-dump=.gnu_debuglink', stripped
ReadelfDump(real_elf) ==
    IF HasDebuglink(real_elf)
    THEN << <<"String dump of section '.gnu_debuglink':">>, <<"[     0]  ">> \o LinkName >>
    ELSE <<>>

\* read_gnu_debuglink: the last line of the dump without '/' that holds a '.',
\* returned whole, i.e. with the offset column readelf prints before the name
read_gnu_debuglink(real_elf) ==
    LET lines == ReadelfDump(real_elf)
    IN  IF lines = <<>> THEN None ELSE lines[Len(lines)]

\* get_gnu_debuglink of quick_multi_symbolizer.py: the last token of the first
\* line of the dump that starts with '['
get_gnu_debuglink(real_elf) ==
    LET lines == ReadelfDump(real_elf)
    IN  IF ~is_file(real_elf) \/ lines = <<>> THEN None ELSE Tail(lines[2])

\* os.path.dirname of a path text whose '/' before the base name is an atom
TextDirname(p) ==
    LET S == {i \in 1..Len(p) : p[i] = "/"}
    IN  IF S = {} THEN <<>> ELSE SubSeq(p, 1, (CHOOSE i \in S : \A j \in S : j <= i) - 1)

\* '; '.join(reason_parts)
RECURSIVE JoinParts(_)
JoinParts(parts) ==
    IF parts = <<>> THEN <<>>
    ELSE IF Len(parts) = 1 THEN parts[1]
    ELSE parts[1] \o <<"; ">> \o JoinParts(Tail(parts))

\* resolve_target_elf_gnu with the default debug root /usr/lib/debug/.build-id
\* and no recursive debug map: the target and the reason (<<>> is None).  The
\* Yocto candidate is joined with the rootfs a second time, as lines 509-510 do.
resolve_target_elf_gnu(orig_elf, build_id) ==
    LET real_orig == apply_rootfs(orig_elf)
        dbg_link == read_gnu_debuglink(real_orig)
        base_dir == TextDirname(real_orig.path)
        l1    == RootfsPath(base_dir \o <<"/">> \o dbg_link)
        l2    == RootfsPath(base_dir \o <<"/", ".debug", "/">> \o dbg_link)
        bid   == Lower(build_id)
        c1    == RootfsPath(DebugRoot \o <<"/">> \o SubSeq(bid, 1, 2) \o <<"/">>
                            \o SubSeq(bid, 3, Len(bid)) \o <<".debug">>)
        c2    == RootfsPath(DebugRoot \o <<"/">> \o SubSeq(bid, 1, 2) \o <<"/">>
                            \o SubSeq(bid, 3, Len(bid)))
        yocto == RootfsPath(<<"<rootfs>", "/usr/lib/debug">> \o orig_elf \o <<".debug">>)
        tried == build_id # <<>> /\ Len(bid) >= 3
        parts1 == IF dbg_link # None THEN << <<".gnu_debuglink=">> \o dbg_link \o <<" missing">> >> ELSE <<>>
        parts2 == IF tried THEN Append(parts1, <<"no debug file found for build-id=">> \o build_id) ELSE parts1
    IN  IF ~is_file(real_orig) THEN [target |-> real_orig, reason |-> <<"origin ELF missing">>]
        ELSE IF dbg_link # None /\ is_file(l1) THEN [target |-> l1, reason |-> None]
        ELSE IF dbg_link # None /\ is_file(l2) THEN [target |-> l2, reason |-> None]
        ELSE IF tried /\ is_file(c1) THEN [target |-> c1, reason |-> JoinParts(parts1)]
        ELSE IF tried /\ is_file(c2) THEN [target |-> c2, reason |-> JoinParts(parts1)]
        ELSE IF is_file(yocto) THEN [target |-> yocto, reason |-> JoinParts(parts2)]
        ELSE [target |-> real_orig,
              reason |-> IF parts2 = <<>>
                         THEN <<"using stripped origin ELF (no separate debug file found)">>
                         ELSE JoinParts(Append(parts2, <<"fallback to stripped origin ELF">>))]

\* the candidates of _resolve_target_elf_single in GNU mode, as logical paths,
\* with the default --debug-root /usr/lib/debug/.build-id
TargetCandidates(orig_elf, build_id) ==
    LET debuglink_name == get_gnu_debuglink(apply_rootfs(orig_elf))
        d == TextDirname(orig_elf)
    IN  (IF debuglink_name # None
         THEN << d \o <<"/">> \o debuglink_name, d \o <<"/", ".debug", "/">> \o debuglink_name >>
         ELSE <<>>)
        \o (IF build_id # <<>> /\ Len(build_id) >= 3
            THEN << DebugRoot \o <<"/">> \o SubSeq(build_id, 1, 2) \o <<"/">>
                        \o SubSeq(build_id, 3, Len(build_id)) \o <<".debug">>,
                    DebugRoot \o <<"/">> \o SubSeq(build_id, 1, 2) \o <<"/">>
                        \o SubSeq(build_id, 3, Len(build_id)) >>
            ELSE <<>>)
        \o << <<"/usr/lib/debug">> \o orig_elf \o <<".debug">> >>

\* _resolve_target_elf_single of quick_multi_symbolizer.py
resolve_target_elf_single(orig_elf, build_id, mode) ==
    LET orig_real == apply_rootfs(orig_elf)
        cands == TargetCandidates(orig_elf, build_id)
        found == {i \in 1..Len(cands) : is_file(apply_rootfs(cands[i]))}
    IN  IF mode # "gnu" THEN [target |-> orig_real, reason |-> None]
        ELSE IF found # {} THEN [target |-> apply_rootfs(cands[SetMin(found)]), reason |-> None]
        ELSE [target |-> orig_real,
              reason |-> IF build_id # <<>>
                         THEN <<"no debug file found (build-id=">> \o build_id \o <<")">>
                         ELSE IF get_gnu_debuglink(orig_real) # None
                         THEN <<"no debug file found (.gnu_debuglink=">> \o get_gnu_debuglink(orig_real) \o <<")">>
                         ELSE <<"no debug file found (.gnu_debuglink/build-id not available)">>]

\* FailureInfo(...)
FailureInfo(key, build_id, target_elf, reason) ==
    [orig_elf |-> key[1], offset |-> key[2], build_id |-> build_id,
     target_elf |-> target_elf, reason |-> reason]

\* build_jobs_by_target: one origin added to (jobs_by_target, debug_failures)
JobsStep(st, key, build_id, mode) ==
    LET Put(target, fails) ==
            [jobs |-> DictSet(st.jobs, target,
                              IF DictHas(st.jobs, target)
                              THEN Append(DictGet(st.jobs, target), key) ELSE <<key>>),
             debug_failures |-> st.debug_failures \o fails]
        Gnu(res) == Put(res.target,
                        IF res.reason # None
                        THEN <<FailureInfo(key, build_id, res.target, res.reason)>> ELSE <<>>)
    IN  IF mode = "llvm"
        THEN Put(apply_rootfs(key[1]),
                 IF ~is_file(apply_rootfs(key[1]))
                 THEN <<FailureInfo(key, build_id, NoPath, <<"origin ELF missing (llvm mode)">>)>>
                 ELSE <<>>)
        ELSE Gnu(resolve_target_elf_gnu(key[1], build_id))

RECURSIVE JobsLoop(_, _, _)
JobsLoop(st, origins, mode) ==
    IF origins = <<>> THEN st
    ELSE JobsLoop(JobsStep(st, Head(origins).key, Head(origins).val, mode), Tail(origins), mode)

\* build_jobs_by_target: [jobs: target -> keys, debug_failures]
build_jobs_by_target(origins, mode) ==
    JobsLoop([jobs |-> <<>>, debug_failures |-> <<>>], origins, mode)

\* what the backend prints for one address without -i: the innermost function
\* and its location, each on a line of its own
TwoLines(target_elf, offset) == Head(SymTab(target_elf, normalize_addr(offset)))

\* Addr2LineProcess.symbolize_many: one (func_line, loc_line) read for an offset;
\* eof: readline returned ''
ReadPair(eof, func_line, loc_line) ==
    LET func0 == IF Strip(func_line) = <<>> THEN <<"?", "?">> ELSE Strip(func_line)
        loc0  == IF Strip(loc_line) = <<>> THEN <<"?", "?", ":", "0">> ELSE Strip(loc_line)
    IN  IF eof THEN <<Unknown>>
        ELSE << << IF func0 = <<"?", "?", "?">> THEN <<"?", "?">> ELSE func0,
                   IF loc0 = <<"?", "?">> THEN <<"?", "?", ":", "0">> ELSE loc0 >> >>

\* run_addr2line_inline: the frames parsed from the lines of stdout
\* [func1, loc1, func2, loc2, ...]; failed: check_output raised
InlineFrames(failed, entries) ==
    LET Fix(e) == << IF e[1] = <<"?", "?", "?">> THEN <<"?", "?">> ELSE e[1],
                     IF e[2] = <<"?", "?">> THEN <<"?", "?", ":", "0">> ELSE e[2] >>
    IN  IF failed \/ entries = <<>> THEN <<Unknown>>
        ELSE [k \in 1..Len(entries) |-> Fix(entries[k])]

\* the ways one group's backend can behave
\*   "answers": it prints what the code reads (two lines per address)
\*   "exits":   it ends before printing anything (non-zero exit status)
\*   "nolaunch": Popen / check_output cannot start it
\*   "pipe":    it has gone when stdin is flushed (BrokenPipeError)
\*   "blocks":  with -p it prints one line per address and waits for input
Behaviours == {"answers", "exits", "nolaunch", "pipe", "blocks"}

\* _symbolize_one_elf for one task: outcome "returns" with (results, failures),
\* "raises" when an exception leaves the function, "blocks" when readline
\* never returns; invoked: the keys handed to the backend; failed: the keys
\* for which no result could be produced (target missing or backend failure)
symbolize_one_elf(target_elf, origin_keys, origins, use_inline, beh) ==
    LET Keyed(F(_)) == [i \in 1..Len(origin_keys) |-> [key |-> origin_keys[i], val |-> F(origin_keys[i])]]
        Missing(key) == FailureInfo(key, DictGet(origins, key), target_elf, <<"target ELF missing">>)
        Inline(key)  == InlineFrames(beh # "answers", SymTab(target_elf, normalize_addr(key[2])))
        Read(key)    == ReadPair(beh = "exits", TwoLines(target_elf, key[2])[1],
                                 TwoLines(target_elf, key[2])[2])
        Ret(results, failures, invoked, failed) ==
            [outcome |-> "returns", results |-> results, failures |-> failures,
             invoked |-> invoked, failed |-> failed]
        keyset == {origin_keys[i] : i \in 1..Len(origin_keys)}
    IN  IF ~is_file(target_elf)
        THEN Ret(<<>>, [i \in 1..Len(origin_keys) |-> Missing(origin_keys[i])], {}, keyset)
        ELSE IF use_inline
        THEN Ret(Keyed(Inline), <<>>, keyset, IF beh # "answers" THEN keyset ELSE {})
        ELSE IF beh \in {"nolaunch", "pipe"}
        THEN [outcome |-> "raises", results |-> <<>>, failures |-> <<>>,
              invoked |-> keyset, failed |-> keyset]
        ELSE IF beh = "blocks"
        THEN [outcome |-> "blocks", results |-> <<>>, failures |-> <<>>,
              invoked |-> keyset, failed |-> {}]
        ELSE Ret(Keyed(Read), <<>>, keyset, IF beh = "exits" THEN keyset ELSE {})

\* dict.update
RECURSIVE DictUpdate(_, _)
DictUpdate(d, items) ==
    IF items = <<>> THEN d
    ELSE DictUpdate(DictSet(d, Head(items).key, Head(items).val), Tail(items))

\* every origin is symbolized again, whatever the loaded cache holds
RemainingAll(origins, cache_db_initial) == origins

\* main, step 4: the origins that are not in the loaded cache
remaining_origins(origins, cache_db_initial) ==
    SelectSeq(origins, LAMBDA it : ~DictHas(cache_db_initial, it.key))

\* the runs of main
Runs == {1, 2}

\* a run that has not started
IdleRun ==
    [pc |-> "idle", inline |-> FALSE, mode |-> "llvm", after |-> {},
     origins |-> <<>>, cache_db_initial |-> <<>>, remaining_origins |-> <<>>,
     jobs_by_target |-> <<>>, pending |-> {}, debug_failures |-> <<>>,
     new_cache |-> <<>>, sym_failures |-> <<>>, invoked |-> {}, failed |-> {},
     final_cache |-> <<>>, out |-> <<>>, failures_all |-> <<>>]


(***************************************************************************)
(* qss.py: one process.  A directory is the sequence of its regular files  *)
(* in the order iterdir yields them; a file is [name, lines].  The output  *)
(* directory of merge mode and the --output file are the dict written      *)
(* (file name -> lines); the file of --output is named "output".           *)
(***************************************************************************)
QssNames == <<"f1", "f2", "f3">>

NameRank(n) == CHOOSE i \in 1..Len(QssNames) : QssNames[i] = n

\* sorted(p for p in stack_dir.iterdir() if p.is_file())
RECURSIVE sorted_files(_)
sorted_files(files) ==
    IF files = <<>> THEN <<>>
    ELSE LET k == CHOOSE i \in 1..Len(files) :
                      \A j \in 1..Len(files) : NameRank(files[i].name) <= NameRank(files[j].name)
         IN  <<files[k]>> \o sorted_files(SubSeq(files, 1, k - 1) \o SubSeq(files, k + 1, Len(files)))

\* all_traces.extend(parse_stack_file(f)) for f in files
RECURSIVE ParseAllFiles(_)
ParseAllFiles(files) ==
    IF files = <<>> THEN <<>>
    ELSE parse_stack_lines(Head(files).lines) \o ParseAllFiles(Tail(files))

\* the renumbering loop of _parse_from_dir: trace.trace_index = current_index,
\* then frame.trace_index = current_index for each frame; Frame is a frozen
\* dataclass, so the assignment to the first frame raises FrozenInstanceError
RECURSIVE Renumber(_, _)
Renumber(all_traces, current_index) ==
    IF all_traces = <<>>
    THEN [raised |-> FALSE, traces |-> <<>>]
    ELSE IF Head(all_traces).frames # <<>>
    THEN [raised |-> TRUE, traces |-> <<>>]
    ELSE LET rest == Renumber(Tail(all_traces), current_index + 1)
         IN  [raised |-> rest.raised,
              traces |-> IF rest.raised THEN <<>>
                         ELSE <<[Head(all_traces) EXCEPT !.trace_index = current_index]>> \o rest.traces]

\* _parse_from_dir
parse_from_dir(files) == Renumber(ParseAllFiles(sorted_files(files)), 0)

\* _parse_from_file
parse_from_file(file) == [raised |-> FALSE, traces |-> parse_stack_lines(file.lines)]

\* load_traces_from_path, on a path that exists
load_traces_from_path(args) ==
    IF args.input = "file" THEN parse_from_file(args.files[1]) ELSE parse_from_dir(args.files)

\* _merge_single_file: nothing is written for a file without traces
merge_single_file(file, ch, rank) ==
    LET Merged(r) == [written |-> TRUE, out |-> merge_original_file(file.lines, r.out), ch |-> r.ch]
        Traces(ts) == IF ts = <<>>
                      THEN [written |-> FALSE, out |-> <<>>, ch |-> ch]
                      ELSE Merged(symbolize_all(ts, ch, rank))
    IN  Traces(parse_stack_lines(file.lines))

NoArgs == [input |-> "missing", files |-> <<>>, rootfs_ok |-> FALSE, backend_present |-> FALSE, mode |-> "merge"]

IdleQss ==
    [pc |-> "idle", exit_code |-> -1, raised |-> FALSE, todo |-> <<>>, parsed |-> <<>>,
     written |-> <<>>, ch |-> [rcache |-> <<>>, acache |-> <<>>]]

\* no binary resolvedTarget
NotResolved == [build_id |-> <<>>, int1 |-> <<>>, quick |-> <<>>]

\* no call of symbolize_many
IdleReader ==
    [pc |-> "idle", adapter |-> "int1", offsets |-> 0, per |-> 0, running |-> FALSE, stdout |-> <<>>,
     i |-> 1, func |-> <<>>, result |-> <<>>]

IdleBatch ==
    [pc |-> "idle", jobs |-> 1, found |-> <<>>, stack_files |-> <<>>, state |-> <<>>, merged |-> <<>>,
     out |-> <<>>, writers |-> <<>>, overall_rc |-> -1]

(***************************************************************************)
(* Inputs                                                                  *)
(***************************************************************************)
LineThread == <<"Thread", " ", "1">>
LineNote == <<"note">>
\* #0 0x10 (/lib/a.so+0x10) (Build-id:ab12)
LineA0 == <<"#", "0", " ", "0x", "1", "0", " ", "(", "/lib/a.so", "+", "0x", "1", "0", ")",
            " ", "(", "Build", "-", "id", ":", "a", "b", "1", "2", ")">>
\* #0 0x30 (/lib/b.so+0x30)
LineB0 == <<"#", "0", " ", "0x", "3", "0", " ", "(", "/lib/b.so", "+", "0x", "3", "0", ")">>
\*   #1 0x20 in main x.c:1
LineSym1 == <<" ", " ", "#", "1", " ", "0x", "2", "0", " ", "in", " ", "main", " ", "x.c", ":", "1">>
\* #2 0x40
LineBare2 == <<"#", "2", " ", "0x", "4", "0">>

\* #7x   (no word boundary after the digits)
LineOdd == <<"#", "7", "x">>

InputLines == {LineThread, LineNote, LineA0, LineB0, LineSym1, LineBare2, LineOdd}

SeqsUpTo(S, n) == UNION {[1..k -> S] : k \in 0..n}

ElfA == RootfsPath(<<"/lib/a.so">>)
DebugA == RootfsPath(DebugRoot \o <<"/", "a", "b", "/", "1", "2", ".debug">>)
ElfB == RootfsPath(<<"/lib/b.so">>)
HostB == HostPath(<<"/lib/b.so">>)

FsWorlds == {{}, {ElfA}, {ElfA, DebugA, ElfB}, {DebugA, HostB}}

\* #3 0x5<FF>   (a frame line that ends with a form feed)
LineFeed == <<"#", "3", " ", "0x", "5", "\f">>

MaxRewriteLines == 2

RewriteLines == InputLines \cup {LineFeed}

\* the text of a file whose lines are lines; final_newline: the last line is terminated
FileText(lines, final_newline) ==
    Flatten([k \in 1..Len(lines) |->
                IF k < Len(lines) \/ final_newline THEN lines[k] \o <<"\n">> ELSE lines[k]])

\* symbol caches of quick_multi_symbolizer_int1 (built from addr2line output or loaded)
KeyA == << <<"/lib/a.so">>, <<"0x", "1", "0">> >>
KeyB == << <<"/lib/b.so">>, <<"0x", "3", "0">> >>

Int1Caches ==
    { <<>>,
      <<[key |-> KeyA, val |-> << <<<<"inl">>, <<"a.h", ":", "7">>>>, <<<<"outer">>, <<"b.c", ":", "9">>>> >>],
        [key |-> KeyB, val |-> << <<<<"main2">>, <<"m.c", ":", "3">>>> >>]>>,
      <<[key |-> KeyA, val |-> << Unknown, Unknown >>],
        [key |-> KeyB, val |-> <<>>]>>,
      <<[key |-> KeyA, val |-> << Unknown, <<<<"outer">>, <<"b.c", ":", "9">>>> >>],
        [key |-> KeyB, val |-> << << <<>>, <<" ">> >> >>]>> }

Idle ==
    /\ pc = "start"
    /\ source = <<>>
    /\ traces = <<>>
    /\ symTraces = <<>>
    /\ caches = [rcache |-> <<>>, acache |-> <<>>]
    /\ outLines = <<>>
    /\ reparsed = <<>>
    /\ final_cache = <<>>
    /\ store = <<>>
    /\ runs = [r \in Runs |-> IdleRun]
    /\ requests = <<>>
    /\ qssArgs = NoArgs
    /\ qssRun = IdleQss
    /\ batch = IdleBatch
    /\ reader = IdleReader
    /\ resolvedTarget = NotResolved

Init ==
    /\ disk \in SeqsUpTo(InputLines, MaxLines)
    /\ fs \in FsWorlds
    /\ backendOk \in BOOLEAN
    /\ tree = {}
    /\ findResult = NotFound
    /\ Idle

\* texts for quick_multi_symbolizer_int1 that also hold a form feed
InitRewrite ==
    /\ disk \in SeqsUpTo(RewriteLines, MaxRewriteLines)
    /\ fs \in FsWorlds
    /\ backendOk \in BOOLEAN
    /\ tree = {}
    /\ findResult = NotFound
    /\ Idle

(***************************************************************************)
(* The end-to-end scenario: one frame of /usr/lib64/libfoo.so with the     *)
(* build-id annotation in each of its spellings                            *)
(***************************************************************************)
MaxScenarioLines == 2

ScnAddress == <<"0x", "1", "f", "f", "f", "f", "9", "d", "e", "0", "d", "5", "8">>

ScnBuildId == <<"a", "a", "0", "d", "6", "e", "0", "0", "1", "1", "2", "2", "3", "3", "4", "4">>

\* (/usr/lib64/libfoo.so+0x1fdb8)
ScnPathGroup == <<"(", "/usr/lib64/libfoo.so", "+", "0x", "1", "f", "d", "b", "8", ")">>

\* '(build-id:', '(Build-id:', '(BUILD-ID: ', '(buildid:', '(build id: '
BuildIdSpellings ==
    { <<"(", "build", "-", "id", ":">>,
      <<"(", "Build", "-", "id", ":">>,
      <<"(", "BUILD", "-", "ID", ":", " ">>,
      <<"(", "buildid", ":">>,
      <<"(", "build", " ", "id", ":", " ">> }

\* #1 0x1ffff9de0d58 (/usr/lib64/libfoo.so+0x1fdb8) (build-id:aa0d6e0011223344)
ScnLine(spelling) ==
    <<"#", "1", " ">> \o ScnAddress \o <<" ">> \o ScnPathGroup \o <<" ">> \o spelling \o ScnBuildId \o <<")">>

\* #1 0x1ffff9de0d58 (Build-id:aa0d6e0011223344)
ScnNoPathLine(spelling) ==
    <<"#", "1", " ">> \o ScnAddress \o <<" ">> \o spelling \o ScnBuildId \o <<")">>

\* #1 0x1ffff9de0d58 (/usr/lib64/libfoo.so+0x1fdb8)
ScnPathOnlyLine == <<"#", "1", " ">> \o ScnAddress \o <<" ">> \o ScnPathGroup

ScenarioLines ==
    {ScnLine(sp) : sp \in BuildIdSpellings}
    \cup {ScnNoPathLine(<<"(", "Build", "-", "id", ":">>), ScnPathOnlyLine, LineNote}

ElfFoo == RootfsPath(<<"/usr/lib64/libfoo.so">>)
DebugFoo == RootfsPath(DebugRoot \o <<"/", "a", "a", "/", "0", "d", "6", "e", "0", "0", "1", "1",
                                      "2", "2", "3", "3", "4", "4", ".debug">>)

ScenarioWorlds == {{}, {ElfFoo}, {DebugFoo}, {ElfFoo, DebugFoo}}

InitScenario ==
    /\ disk \in SeqsUpTo(ScenarioLines, MaxScenarioLines)
    /\ fs \in ScenarioWorlds
    /\ backendOk \in BOOLEAN
    /\ tree = {}
    /\ findResult = NotFound
    /\ Idle

(***************************************************************************)
(* Traces whose frames lie in two binaries and share addresses             *)
(***************************************************************************)
MaxGroupLines == 3

\* #1 0x30 (/lib/b.so+0x30)
LineB1 == <<"#", "1", " ", "0x", "3", "0", " ", "(", "/lib/b.so", "+", "0x", "3", "0", ")">>
\* #2 0x10 (/lib/a.so+0x10) (Build-id:ab12)
LineA2 == <<"#", "2", " ", "0x", "1", "0", " ", "(", "/lib/a.so", "+", "0x", "1", "0", ")",
            " ", "(", "Build", "-", "id", ":", "a", "b", "1", "2", ")">>
\* #1 0x10 (/lib/a.so+0x010) (Build-id:ab12)   (the same offset, written with a leading zero)
LineA1z == <<"#", "1", " ", "0x", "1", "0", " ", "(", "/lib/a.so", "+", "0x", "0", "1", "0", ")",
             " ", "(", "Build", "-", "id", ":", "a", "b", "1", "2", ")">>

GroupLines == {LineA0, LineB1, LineA2, LineA1z}

InitGroups ==
    /\ disk \in SeqsUpTo(GroupLines, MaxGroupLines)
    /\ fs \in FsWorlds
    /\ backendOk \in BOOLEAN
    /\ tree = {}
    /\ findResult = NotFound
    /\ Idle

\* parser.parse_stack_file, called by qss._merge_single_file / load_traces_from_path
ParseStackFile ==
    /\ pc = "start"
    /\ source' = disk
    /\ traces' = parse_stack_lines(disk)
    /\ pc' = "parsed"
    /\ UNCHANGED <<disk, fs, backendOk, symTraces, caches, outLines, reparsed, final_cache, findVars, int1Vars, requests, qssVars>>

\* 'if not traces: ... return' of qss._merge_single_file / run_symbolization
NoTraces ==
    /\ pc = "parsed"
    /\ traces = <<>>
    /\ pc' = "done"
    /\ UNCHANGED <<disk, source, fs, backendOk, traces, symTraces, caches, outLines, reparsed, final_cache, findVars, int1Vars, requests, qssVars>>

\* quick_multi_symbolizer_int1._rewrite_one_file: read the text, transform_text, write it
TransformText ==
    /\ pc = "start"
    /\ \E table \in Int1Caches, final_newline \in BOOLEAN :
          LET Run(text) == /\ source' = splitlines(text)
                           /\ outLines' = splitlines(transform_text(text, table))
                           /\ final_cache' = table
          IN  Run(FileText(disk, final_newline))
    /\ pc' = "rewritten"
    /\ UNCHANGED <<disk, fs, backendOk, traces, symTraces, caches, reparsed, findVars, int1Vars, requests, qssVars>>

\* symbolizer.symbolize_all
SymbolizeAll ==
    /\ pc = "parsed"
    /\ traces # <<>>
    /\ \E rank \in CompletionRanks(MaxGroups) :
          LET Result(r) == symTraces' = r.out /\ caches' = r.ch /\ requests' = r.calls
          IN  Result(symbolize_all(traces, caches, rank))
    /\ pc' = "symbolized"
    /\ UNCHANGED <<disk, source, fs, backendOk, traces, outLines, reparsed, final_cache, findVars, int1Vars, qssVars>>

\* the input file is read a second time by merge_original_file; something else
\* may have rewritten it since it was parsed (here: one line removed)
FileRewritten ==
    /\ pc = "symbolized"
    /\ disk = source
    /\ \E k \in 1..Len(disk) : disk' = SubSeq(disk, 1, k - 1) \o SubSeq(disk, k + 1, Len(disk))
    /\ UNCHANGED <<pc, source, fs, backendOk, traces, symTraces, caches, outLines, reparsed, final_cache, findVars, int1Vars, requests, qssVars>>

\* merge_original.merge_original_file, called by qss._merge_single_file
MergeOriginalFile ==
    /\ pc = "symbolized"
    /\ outLines' = merge_original_file(disk, symTraces)
    /\ pc' = "merged"
    /\ UNCHANGED <<disk, source, fs, backendOk, traces, symTraces, caches, reparsed, final_cache, findVars, int1Vars, requests, qssVars>>

\* format_all_traces(sym_traces, include_preamble=False) of run_symbolization
WriteStackOnly ==
    /\ pc = "symbolized"
    /\ outLines' = format_all_traces(symTraces, FALSE)
    /\ pc' = "formatted"
    /\ UNCHANGED <<disk, source, fs, backendOk, traces, symTraces, caches, reparsed, final_cache, findVars, int1Vars, requests, qssVars>>

\* the stack-only text of one symbolized trace, parsed again by parse_stack_lines
ReparseStackOnly ==
    /\ pc = "symbolized"
    /\ \E k \in 1..Len(symTraces) :
          /\ outLines' = format_symbolized_trace(symTraces[k], FALSE)
          /\ reparsed' = parse_stack_lines(format_symbolized_trace(symTraces[k], FALSE))
    /\ pc' = "reparsed"
    /\ UNCHANGED <<disk, source, fs, backendOk, traces, symTraces, caches, final_cache, findVars, int1Vars, requests, qssVars>>

Next ==
    \/ ParseStackFile
    \/ NoTraces
    \/ SymbolizeAll
    \/ FileRewritten
    \/ MergeOriginalFile
    \/ WriteStackOnly
    \/ ReparseStackOnly
    \/ TransformText

Spec == Init /\ [][Next]_vars

SpecScenario == InitScenario /\ [][Next]_vars

SpecRewrite == InitRewrite /\ [][Next]_vars

SpecGroups == InitGroups /\ [][Next]_vars

(***************************************************************************)
(* qss.py: the runs of one process                                         *)
(***************************************************************************)
MaxQssFiles == 2

QssContents == {<<LineNote>>, <<LineA0>>, <<LineThread, LineB0>>}

Range(f) == {f[i] : i \in DOMAIN f}

\* the directories: at most MaxQssFiles files with different names, in any iterdir order
QssDirs ==
    {d \in SeqsUpTo([name : Range(QssNames), lines : QssContents], MaxQssFiles) :
        \A i, j \in DOMAIN d : d[i].name = d[j].name => i = j}

QssInputs ==
    {[input |-> "missing", files |-> <<>>]}
    \cup {[input |-> "file", files |-> <<[name |-> "f1", lines |-> c]>>] : c \in QssContents}
    \cup {[input |-> "dir", files |-> d] : d \in QssDirs}

QssModes == {"summary", "merge", "output"}

\* everything but qssRun
qssRest == <<qssArgs, batch, reader, resolvedTarget, pc, disk, source, fs, backendOk, traces, symTraces, caches, outLines, reparsed,
             final_cache, tree, findResult, store, runs, requests>>

InitQss ==
    /\ \E i \in QssInputs, r \in BOOLEAN, b \in BOOLEAN, m \in QssModes :
          qssArgs = [input |-> i.input, files |-> i.files, rootfs_ok |-> r, backend_present |-> b, mode |-> m]
    /\ backendOk \in (IF qssArgs.backend_present THEN BOOLEAN ELSE {FALSE})
    /\ fs \in FsWorlds
    /\ qssRun = [IdleQss EXCEPT !.pc = "start"]
    /\ batch = IdleBatch
    /\ reader = IdleReader
    /\ resolvedTarget = NotResolved
    /\ disk = <<>>
    /\ tree = {}
    /\ findResult = NotFound
    /\ pc = "start"
    /\ source = <<>>
    /\ traces = <<>>
    /\ symTraces = <<>>
    /\ caches = [rcache |-> <<>>, acache |-> <<>>]
    /\ outLines = <<>>
    /\ reparsed = <<>>
    /\ final_cache = <<>>
    /\ store = <<>>
    /\ runs = [r \in Runs |-> IdleRun]
    /\ requests = <<>>

Exited(run, code) == [run EXCEPT !.pc = "exited", !.exit_code = code]

FileNames(files) == [i \in DOMAIN files |-> files[i].name]

\* main up to the choice of the mode: the two checks that raise SystemExit(1)
QssMain ==
    /\ qssRun.pc = "start"
    /\ qssRun' = IF qssArgs.input = "missing" \/ ~qssArgs.rootfs_ok
                 THEN Exited(qssRun, 1)
                 ELSE IF qssArgs.mode = "merge"
                 THEN [qssRun EXCEPT !.pc = "merge",
                                     !.todo = IF qssArgs.input = "file" THEN qssArgs.files
                                              ELSE sorted_files(qssArgs.files)]
                 ELSE [qssRun EXCEPT !.pc = qssArgs.mode]
    /\ UNCHANGED qssRest

\* --summary: load_traces_from_path and print_summary; an exception that is not
\* caught ends the process with exit code 1
QssSummary ==
    /\ qssRun.pc = "summary"
    /\ LET Loaded(l) ==
               qssRun' = [Exited(qssRun, IF l.raised THEN 1 ELSE 0) EXCEPT
                             !.raised = l.raised,
                             !.parsed = FileNames(IF qssArgs.input = "file" THEN qssArgs.files
                                                  ELSE sorted_files(qssArgs.files))]
       IN  Loaded(load_traces_from_path(qssArgs))
    /\ UNCHANGED qssRest

\* one iteration of 'for f in files: _merge_single_file(...)' (the only one for a file input)
QssMergeFile ==
    /\ qssRun.pc = "merge"
    /\ qssRun.todo # <<>>
    /\ \E rank \in CompletionRanks(MaxGroups) :
          LET f == Head(qssRun.todo)
              Done(m) ==
                  qssRun' = [qssRun EXCEPT !.todo = Tail(qssRun.todo),
                                           !.parsed = Append(qssRun.parsed, f.name),
                                           !.ch = m.ch,
                                           !.written = IF m.written THEN DictSet(qssRun.written, f.name, m.out)
                                                       ELSE qssRun.written]
          IN  Done(merge_single_file(f, qssRun.ch, rank))
    /\ UNCHANGED qssRest

\* the return of run_symbolization in merge mode
QssMergeDone ==
    /\ qssRun.pc = "merge"
    /\ qssRun.todo = <<>>
    /\ qssRun' = Exited(qssRun, 0)
    /\ UNCHANGED qssRest

\* run_symbolization without --merge-output, with --output
QssStackOnly ==
    /\ qssRun.pc = "output"
    /\ \E rank \in CompletionRanks(MaxGroups) :
          LET names == FileNames(IF qssArgs.input = "file" THEN qssArgs.files ELSE sorted_files(qssArgs.files))
              Written(r) ==
                  [Exited(qssRun, 0) EXCEPT
                      !.parsed = names,
                      !.ch = r.ch,
                      !.written = DictSet(qssRun.written, "output", format_all_traces(r.out, FALSE))]
              Loaded(l) ==
                  qssRun' = IF l.raised
                            THEN [Exited(qssRun, 1) EXCEPT !.raised = TRUE, !.parsed = names]
                            ELSE IF l.traces = <<>>
                            THEN [Exited(qssRun, 0) EXCEPT !.parsed = names]
                            ELSE Written(symbolize_all(l.traces, qssRun.ch, rank))
          IN  Loaded(load_traces_from_path(qssArgs))
    /\ UNCHANGED qssRest

NextQss == QssMain \/ QssSummary \/ QssMergeFile \/ QssMergeDone \/ QssStackOnly

SpecQss == InitQss /\ [][NextQss]_vars

(***************************************************************************)
(* qss_batch.py: one run with --merge-output.  A stack file is             *)
(* [dir, name, lines]; found is the order rglob yields the files in.  Each *)
(* file is handled by a qss.py process of its own (run_qss_on_file), which *)
(* writes out_dir/<name>; writers records which processes wrote a path.    *)
(***************************************************************************)
MaxBatchFiles == 2

BatchDirs == <<"a", "b">>

BatchNames == <<"x.log", "y.log">>

BatchContents == {<<LineNote>>, <<LineA0>>, <<LineB0>>}

Index(seq, x) == CHOOSE i \in DOMAIN seq : seq[i] = x

\* the order of two paths
PathBefore(f, g) ==
    \/ Index(BatchDirs, f.dir) < Index(BatchDirs, g.dir)
    \/ f.dir = g.dir /\ Index(BatchNames, f.name) <= Index(BatchNames, g.name)

\* results.sort() of find_stack_files
RECURSIVE find_stack_files(_)
find_stack_files(results) ==
    IF results = <<>> THEN <<>>
    ELSE LET k == CHOOSE i \in DOMAIN results : \A j \in DOMAIN results : PathBefore(results[i], results[j])
         IN  <<results[k]>> \o find_stack_files(SubSeq(results, 1, k - 1) \o SubSeq(results, k + 1, Len(results)))

BatchFound ==
    {d \in SeqsUpTo([dir : Range(BatchDirs), name : Range(BatchNames), lines : BatchContents], MaxBatchFiles) :
        \A i, j \in DOMAIN d : (d[i].dir = d[j].dir /\ d[i].name = d[j].name) => i = j}

batchRest == <<qssArgs, qssRun, reader, resolvedTarget, pc, disk, source, fs, backendOk, traces, symTraces, caches, outLines, reparsed,
               final_cache, tree, findResult, store, runs, requests>>

InitBatch ==
    /\ \E fl \in BatchFound, j \in {1, 2} :
          batch = [IdleBatch EXCEPT !.pc = "start", !.jobs = j, !.found = fl]
    /\ backendOk \in BOOLEAN
    /\ fs \in FsWorlds
    /\ qssArgs = NoArgs
    /\ qssRun = IdleQss
    /\ reader = IdleReader
    /\ resolvedTarget = NotResolved
    /\ disk = <<>>
    /\ tree = {}
    /\ findResult = NotFound
    /\ pc = "start"
    /\ source = <<>>
    /\ traces = <<>>
    /\ symTraces = <<>>
    /\ caches = [rcache |-> <<>>, acache |-> <<>>]
    /\ outLines = <<>>
    /\ reparsed = <<>>
    /\ final_cache = <<>>
    /\ store = <<>>
    /\ runs = [r \in Runs |-> IdleRun]
    /\ requests = <<>>

\* main up to the start of the jobs: find_stack_files, sys.exit(0) without files
BatchMain ==
    /\ batch.pc = "start"
    /\ LET sf == find_stack_files(batch.found)
       IN  batch' = IF sf = <<>>
                    THEN [batch EXCEPT !.pc = "exited", !.overall_rc = 0]
                    ELSE [batch EXCEPT !.pc = "running", !.stack_files = sf,
                                       !.state = [i \in DOMAIN sf |-> "queued"],
                                       !.merged = [i \in DOMAIN sf |-> [written |-> FALSE, out |-> <<>>]]]
    /\ UNCHANGED batchRest

\* run_qss_on_file starts a qss.py process, which parses and symbolizes its file
\* (_merge_single_file up to the call of merge_original_file); with jobs = 1 the
\* files are taken in order, one at a time, otherwise at most jobs run at once
BatchJobStart(i) ==
    /\ batch.pc = "running"
    /\ i \in DOMAIN batch.state
    /\ batch.state[i] = "queued"
    /\ Cardinality({j \in DOMAIN batch.state : batch.state[j] = "running"}) < batch.jobs
    /\ \A j \in 1..(i - 1) : batch.state[j] # "queued"
    /\ \E rank \in CompletionRanks(MaxGroups) :
          LET f == batch.stack_files[i]
              Started(m) == batch' = [batch EXCEPT !.state[i] = "running",
                                                   !.merged[i] = [written |-> m.written, out |-> m.out]]
          IN  Started(merge_single_file([name |-> f.name, lines |-> f.lines],
                                        [rcache |-> <<>>, acache |-> <<>>], rank))
    /\ UNCHANGED batchRest

\* the process writes out_dir / stack_file.name (when its file has traces) and exits
BatchJobWrite(i) ==
    /\ batch.pc = "running"
    /\ i \in DOMAIN batch.state
    /\ batch.state[i] = "running"
    /\ LET name == batch.stack_files[i].name
           m    == batch.merged[i]
       IN  batch' = [batch EXCEPT
                        !.state[i] = "done",
                        !.out = IF m.written THEN DictSet(batch.out, name, m.out) ELSE batch.out,
                        !.writers = IF m.written
                                    THEN DictSet(batch.writers, name,
                                                 (IF DictHas(batch.writers, name)
                                                  THEN DictGet(batch.writers, name) ELSE {}) \cup {i})
                                    ELSE batch.writers]
    /\ UNCHANGED batchRest

\* sys.exit(overall_rc) after the last job
BatchExit ==
    /\ batch.pc = "running"
    /\ \A i \in DOMAIN batch.state : batch.state[i] = "done"
    /\ batch' = [batch EXCEPT !.pc = "exited", !.overall_rc = 0]
    /\ UNCHANGED batchRest

NextBatch ==
    \/ BatchMain
    \/ \E i \in 1..MaxBatchFiles : BatchJobStart(i)
    \/ \E i \in 1..MaxBatchFiles : BatchJobWrite(i)
    \/ BatchExit

SpecBatch == InitBatch /\ [][NextBatch]_vars

(***************************************************************************)
(* Addr2LineProcess.symbolize_many of quick_multi_symbolizer_int1.py       *)
(* (adapter "int1") and of quick_multi_symbolizer.py (adapter "quick"),    *)
(* one readline per step.  The addresses are 1..offsets.  A line of the    *)
(* backend's stdout is [of, n]: the n-th line of its answer to address of; *)
(* Eof is what readline returns at the end of the stream.  per is the      *)
(* number of lines the backend prints per address; running tells whether   *)
(* it is still running after that (it waits for more input) or has exited. *)
(***************************************************************************)
MaxAddrs == 3

MaxPer == 3

Eof == [of |-> 0, n |-> 0]

\* lines per address GNU addr2line prints with the flags of the adapter:
\* -f -C -p -e (int1): one line 'func at file:line'; -f -C -e (quick): two
FlagLines(adapter) == IF adapter = "int1" THEN 1 ELSE 2

\* what the backend prints for the addresses written to its stdin, in order
BackendLines(offsets, per) ==
    [k \in 1..(offsets * per) |-> [of |-> ((k - 1) \div per) + 1, n |-> ((k - 1) % per) + 1]]

readerRest == <<qssArgs, qssRun, batch, resolvedTarget, pc, disk, source, fs, backendOk, traces, symTraces, caches, outLines,
                reparsed, final_cache, tree, findResult, store, runs, requests>>

InitReader ==
    /\ \E a \in {"int1", "quick"}, n \in 0..MaxAddrs, p \in 0..MaxPer, run \in BOOLEAN :
          reader = [IdleReader EXCEPT !.pc = "start", !.adapter = a, !.offsets = n, !.per = p, !.running = run]
    /\ qssArgs = NoArgs
    /\ qssRun = IdleQss
    /\ batch = IdleBatch
    /\ resolvedTarget = NotResolved
    /\ backendOk = TRUE
    /\ fs = {}
    /\ disk = <<>>
    /\ tree = {}
    /\ findResult = NotFound
    /\ pc = "start"
    /\ source = <<>>
    /\ traces = <<>>
    /\ symTraces = <<>>
    /\ caches = [rcache |-> <<>>, acache |-> <<>>]
    /\ outLines = <<>>
    /\ reparsed = <<>>
    /\ final_cache = <<>>
    /\ store = <<>>
    /\ runs = [r \in Runs |-> IdleRun]
    /\ requests = <<>>

\* 'if not offsets: return', else the writes to stdin and the flush; the
\* backend answers the addresses in the order they were written
ReaderWrite ==
    /\ reader.pc = "start"
    /\ reader' = IF reader.offsets = 0
                 THEN [reader EXCEPT !.pc = "returned"]
                 ELSE [reader EXCEPT !.pc = "reading",
                                     !.stdout = BackendLines(reader.offsets, reader.per)]
    /\ UNCHANGED readerRest

\* the state after the loop body has ended for the current address
NextOffset(rd) ==
    IF rd.i = rd.offsets
    THEN [rd EXCEPT !.pc = "returned", !.func = <<>>]
    ELSE [rd EXCEPT !.i = rd.i + 1, !.func = <<>>]

\* int1, lines 259-276: after func_line, after loc_line
Int1AfterRead(rd, line) ==
    IF rd.func = <<>>
    THEN IF line = Eof
         THEN NextOffset([rd EXCEPT !.result = DictSet(rd.result, rd.i, [func |-> Eof, loc |-> Eof])])
         ELSE [rd EXCEPT !.func = <<line>>]
    ELSE NextOffset([rd EXCEPT !.result = DictSet(rd.result, rd.i, [func |-> rd.func[1], loc |-> line])])

\* quick_multi_symbolizer, lines 193-198: after func, after loc
QuickAfterRead(rd, line) ==
    IF rd.func = <<>>
    THEN [rd EXCEPT !.func = <<line>>]
    ELSE IF rd.func[1] = Eof \/ line = Eof
    THEN [rd EXCEPT !.pc = "returned", !.func = <<>>]
    ELSE NextOffset([rd EXCEPT !.result = DictSet(rd.result, rd.i, [func |-> rd.func[1], loc |-> line])])

\* one self.proc.stdout.readline(): it returns the next line, or '' when the
\* backend has exited and the pipe is empty; on an empty pipe of a backend
\* that is still running it does not return
ReaderReadline ==
    /\ reader.pc = "reading"
    /\ reader.stdout # <<>> \/ ~reader.running
    /\ LET line == IF reader.stdout # <<>> THEN Head(reader.stdout) ELSE Eof
           rd   == [reader EXCEPT !.stdout = IF reader.stdout # <<>> THEN Tail(reader.stdout) ELSE <<>>]
       IN  reader' = IF reader.adapter = "int1" THEN Int1AfterRead(rd, line) ELSE QuickAfterRead(rd, line)
    /\ UNCHANGED readerRest

NextReader == ReaderWrite \/ ReaderReadline

SpecReader == InitReader /\ [][NextReader]_vars

\* readline returns as soon as the operating system can serve it
SpecReaderLive == InitReader /\ [][NextReader]_vars /\ WF_vars(ReaderReadline) /\ WF_vars(ReaderWrite)

(***************************************************************************)
(* The resolvers of the symbolizing pipelines on one binary /lib/a.so with *)
(* build-id ab12 in the log, in file systems that hold any of: the binary, *)
(* its .gnu_debuglink section, the debug link file beside it or in .debug, *)
(* the two build-id-tree files, the Yocto-style file.                      *)
(***************************************************************************)
LinkedElf == <<"/lib", "/", "a.so">>

LinkBid == <<"a", "b", "1", "2">>

LinkSameDir == RootfsPath(<<"/lib", "/">> \o LinkName)

LinkDotDebug == RootfsPath(<<"/lib", "/", ".debug", "/">> \o LinkName)

BidDebug == RootfsPath(DebugRoot \o <<"/", "a", "b", "/", "1", "2", ".debug">>)

BidPlain == RootfsPath(DebugRoot \o <<"/", "a", "b", "/", "1", "2">>)

ResolveWorlds ==
    SUBSET {RootfsPath(LinkedElf), [root |-> ".gnu_debuglink", path |-> LinkedElf],
            LinkSameDir, LinkDotDebug, BidDebug, BidPlain,
            RootfsPath(<<"/usr/lib/debug">> \o LinkedElf \o <<".debug">>)}

resolveRest == <<qssArgs, qssRun, batch, reader, pc, disk, source, fs, backendOk, traces, symTraces, caches, outLines,
                 reparsed, final_cache, tree, findResult, store, runs, requests>>

InitResolve ==
    /\ fs \in ResolveWorlds
    /\ \E b \in {None, LinkBid} : resolvedTarget = [NotResolved EXCEPT !.build_id = b]
    /\ qssArgs = NoArgs
    /\ qssRun = IdleQss
    /\ batch = IdleBatch
    /\ reader = IdleReader
    /\ backendOk = TRUE
    /\ disk = <<>>
    /\ tree = {}
    /\ findResult = NotFound
    /\ pc = "start"
    /\ source = <<>>
    /\ traces = <<>>
    /\ symTraces = <<>>
    /\ caches = [rcache |-> <<>>, acache |-> <<>>]
    /\ outLines = <<>>
    /\ reparsed = <<>>
    /\ final_cache = <<>>
    /\ store = <<>>
    /\ runs = [r \in Runs |-> IdleRun]
    /\ requests = <<>>

\* build_jobs_by_target of quick_multi_symbolizer_int1.py calls resolve_target_elf_gnu
ResolveTargetElfGnu ==
    /\ resolvedTarget.int1 = <<>>
    /\ resolvedTarget' = [resolvedTarget EXCEPT !.int1 = <<resolve_target_elf_gnu(LinkedElf, resolvedTarget.build_id)>>]
    /\ UNCHANGED resolveRest

\* build_jobs_by_target of quick_multi_symbolizer.py calls _resolve_target_elf_single
ResolveTargetElfSingle ==
    /\ resolvedTarget.quick = <<>>
    /\ \E mode \in {"gnu", "llvm"} :
          resolvedTarget' = [resolvedTarget EXCEPT !.quick = <<[mode |-> mode,
                                                    res |-> resolve_target_elf_single(LinkedElf, resolvedTarget.build_id, mode)]>>]
    /\ UNCHANGED resolveRest

NextResolve == ResolveTargetElfGnu \/ ResolveTargetElfSingle

SpecResolve == InitResolve /\ [][NextResolve]_vars

(***************************************************************************)
(* C21: a missing input path, a missing rootfs directory or a missing      *)
(* backend executable makes qss exit with a non-zero code before any file  *)
(* is parsed or written; every other run exits with code 0.                *)
(***************************************************************************)
SetupError == qssArgs.input = "missing" \/ ~qssArgs.rootfs_ok \/ ~qssArgs.backend_present

C21_SetupErrorsAbort ==
    qssRun.pc = "exited" =>
        IF SetupError
        THEN qssRun.exit_code # 0 /\ qssRun.parsed = <<>> /\ qssRun.written = <<>>
        ELSE qssRun.exit_code = 0

\* without a backend executable the run parses, writes and exits with code 0
C21_MissingBackendRunsOn ==
    ~(/\ qssRun.pc = "exited"
      /\ qssArgs.input # "missing" /\ qssArgs.rootfs_ok /\ ~qssArgs.backend_present
      /\ qssRun.exit_code = 0
      /\ qssRun.parsed # <<>>
      /\ qssRun.written # <<>>)

\* with every setup check passed, a run over a directory exits with a non-zero code
C21_NoSetupErrorNonZero ==
    ~(qssRun.pc = "exited" /\ ~SetupError /\ qssRun.exit_code # 0)

(***************************************************************************)
(* C23: load_traces_from_path on a directory that holds at least one frame *)
(* completes without raising and returns the traces of all files in        *)
(* sorted-file order, the i-th trace and each of its frames carrying       *)
(* trace_index i (counted from 0).                                         *)
(***************************************************************************)
C23_DirRenumbered ==
    (/\ qssRun.pc = "exited"
     /\ qssArgs.input = "dir"
     /\ qssArgs.rootfs_ok
     /\ qssArgs.mode \in {"summary", "output"}
     /\ ParseAllFiles(sorted_files(qssArgs.files)) # <<>>)
    => LET l   == load_traces_from_path(qssArgs)
           all == ParseAllFiles(sorted_files(qssArgs.files))
       IN  /\ ~qssRun.raised
           /\ ~l.raised
           /\ Len(l.traces) = Len(all)
           /\ \A i \in DOMAIN l.traces :
                 /\ l.traces[i].trace_index = i - 1
                 /\ l.traces[i].preamble = all[i].preamble
                 /\ Len(l.traces[i].frames) = Len(all[i].frames)
                 /\ \A k \in DOMAIN l.traces[i].frames :
                       /\ l.traces[i].frames[k].trace_index = i - 1
                       /\ l.traces[i].frames[k].raw_line = all[i].frames[k].raw_line

(***************************************************************************)
(* C27: in merge mode every regular input file yields a file of the same   *)
(* name in the output directory; for an input file without a frame line    *)
(* the output file exists and holds the lines of the input.                *)
(***************************************************************************)
C27_EveryFileMerged ==
    (qssRun.pc = "exited" /\ qssArgs.mode = "merge" /\ qssRun.exit_code = 0)
    => \A i \in DOMAIN qssArgs.files :
          LET f == qssArgs.files[i]
          IN  /\ DictHas(qssRun.written, f.name)
              /\ (\A k \in DOMAIN f.lines : ~IsFrameLine(f.lines[k]))
                    => DictGet(qssRun.written, f.name) = f.lines

(***************************************************************************)
(* FindDebugElfsforMain: one main binary /usr/lib64/libfoo.so with build-id *)
(* abcd in a fabricated rootfs, and a file /h.debug of the host outside it  *)
(***************************************************************************)
File(p, size, elf, build_id) ==
    [path |-> p, kind |-> "file", size |-> size, elf |-> elf, build_id |-> build_id,
     abs |-> FALSE, target |-> <<>>]

Link(p, abs, target) ==
    [path |-> p, kind |-> "link", size |-> 0, elf |-> FALSE, build_id |-> <<>>,
     abs |-> abs, target |-> target]

MainPath == <<"usr", "lib64", "libfoo.so">>

MainBuildId == <<"a", "b", "c", "d">>

DebugRoots == << <<"usr", "lib", "debug", ".build-id">> >>

BuildidEntry == generate_buildid_candidates(MainBuildId, <<rootfs_real \o DebugRoots[1]>>)[1].abs

SameDirDebug == rootfs_real \o WithDebugSuffix(MainPath)

OverlayDebug == rootfs_real \o <<"usr", "lib", "debug", "lib64", "libfoo.so.debug">>

TizenDebug == rootfs_real \o <<"usr", "lib", "debug", "lib64.tizen-debug", "libfoo.so.debug">>

RealDebug == dirname(BuildidEntry) \o <<"real.debug">>

HopLink == dirname(BuildidEntry) \o <<"hop.debug">>

HostDebug == <<"h.debug">>

Sizes == {1, 2}

MainOpts == { {File(rootfs_real \o MainPath, 1, TRUE, MainBuildId)},
              {File(rootfs_real \o MainPath, 1, TRUE, <<>>)} }

FileOpts(p) == { {} } \cup { {File(p, s, FALSE, <<>>)} : s \in Sizes }

\* what is at <debug-root>/ab/cd.debug: nothing, a file, or a symbolic link
BuildidOpts ==
    FileOpts(BuildidEntry)
    \cup { {Link(BuildidEntry, FALSE, <<"real.debug">>), File(RealDebug, s, FALSE, <<>>)} : s \in Sizes }
    \cup { {Link(BuildidEntry, FALSE, <<DotDot, DotDot>> \o <<"lib64", "libfoo.so.debug">>)},
           {Link(BuildidEntry, TRUE, WithDebugSuffix(MainPath))},
           {Link(BuildidEntry, FALSE, <<"gone.debug">>)},
           {Link(BuildidEntry, FALSE, [i \in 1..Len(dirname(BuildidEntry)) |-> DotDot] \o HostDebug),
            File(HostDebug, 2, FALSE, <<>>)},
           {Link(BuildidEntry, TRUE, <<DotDot>> \o HostDebug), File(HostDebug, 2, FALSE, <<>>)},
           {Link(BuildidEntry, FALSE, <<"hop.debug">>), Link(HopLink, TRUE, HostDebug),
            File(HostDebug, 2, FALSE, <<>>)},
           {Link(BuildidEntry, FALSE, <<"hop.debug">>), Link(HopLink, FALSE, <<"real.debug">>),
            File(RealDebug, 2, FALSE, <<>>)} }

FindWorlds ==
    { m \cup sd \cup ov \cup tz \cup be :
        m \in MainOpts, sd \in FileOpts(SameDirDebug), ov \in FileOpts(OverlayDebug),
        tz \in { {}, {File(TizenDebug, 2, FALSE, <<>>)} }, be \in BuildidOpts }

InitFind ==
    /\ tree \in FindWorlds
    /\ findResult = NotFound
    /\ disk = <<>>
    /\ fs = {}
    /\ backendOk = TRUE
    /\ Idle

\* resolve_buildid_candidate applied to the build-id candidate of the main binary
ResolveBuildidCandidate ==
    /\ pc = "start"
    /\ findResult' = resolve_buildid_candidate(tree, rootfs_real,
                    generate_buildid_candidates(MainBuildId, <<rootfs_real \o DebugRoots[1]>>)[1])
    /\ pc' = "resolved"
    /\ UNCHANGED <<disk, source, fs, backendOk, traces, symTraces, caches, outLines, reparsed, final_cache, tree, int1Vars, requests, qssVars>>

\* find_debug_for_main (resolve_debug_for_main_many for one main path)
FindDebugForMain ==
    /\ pc = "start"
    /\ findResult' = find_debug_for_main(tree, rootfs_real, MainPath, DebugRoots)
    /\ pc' = "found"
    /\ UNCHANGED <<disk, source, fs, backendOk, traces, symTraces, caches, outLines, reparsed, final_cache, tree, int1Vars, requests, qssVars>>

NextFind ==
    \/ ResolveBuildidCandidate
    \/ FindDebugForMain

SpecFind == InitFind /\ [][NextFind]_vars

(***************************************************************************)
(* quick_multi_symbolizer_int1.main with --cache-db: two runs over the     *)
(* same input file, rootfs and cache database, in any interleaving.        *)
(* store is the rows of the table symbols; runs[r] is the state of         *)
(* run r: its options, the locals of main and what it has written, with   *)
(* the keys given to the backend (invoked) and those it failed on (failed).*)
(***************************************************************************)
\* lines of the input file of the runs
Int1Lines == {LineA0, LineB0}

MaxInt1Lines == 2

InitInt1 ==
    /\ disk \in SeqsUpTo(Int1Lines, MaxInt1Lines) \ {<<>>}
    /\ fs \in FsWorlds
    /\ backendOk = TRUE
    /\ tree = {}
    /\ findResult = NotFound
    /\ Idle

\* main, steps 1-5: collect_origins, load_cache_from_db, remaining_origins,
\* build_jobs_by_target (after: the runs that had ended when this one started)
Int1Prepare(r) ==
    /\ runs[r].pc = "idle"
    /\ \E use_inline \in BOOLEAN, mode \in {"llvm", "gnu"} :
          LET Go(origins, loaded) ==
                  LET remaining == remaining_origins(origins, loaded)
                      Built(b) ==
                          runs' = [runs EXCEPT ![r] =
                              [@ EXCEPT !.pc = IF b.jobs = <<>> THEN "collected" ELSE "symbolizing",
                                        !.inline = use_inline,
                                        !.mode = mode,
                                        !.after = {q \in Runs : runs[q].pc = "done"},
                                        !.origins = origins,
                                        !.cache_db_initial = loaded,
                                        !.remaining_origins = remaining,
                                        !.jobs_by_target = b.jobs,
                                        !.pending = {b.jobs[i].key : i \in 1..Len(b.jobs)},
                                        !.debug_failures = b.debug_failures]]
                  IN  Built(build_jobs_by_target(remaining, mode))
          IN  Go(collect_origins(disk), load_cache_from_db(store))
    /\ UNCHANGED <<store, oldVars>>

\* symbolize_all_parallel: imap_unordered yields the result of one task
Int1GroupDone(r) ==
    /\ runs[r].pc = "symbolizing"
    /\ \E target \in runs[r].pending, beh \in Behaviours :
          LET Got(res) ==
                  /\ res.outcome = "returns"
                  /\ runs' = [runs EXCEPT ![r] =
                        [@ EXCEPT !.pc = IF runs[r].pending = {target} THEN "collected" ELSE "symbolizing",
                                  !.pending = @ \ {target},
                                  !.new_cache = DictUpdate(@, res.results),
                                  !.sym_failures = @ \o res.failures,
                                  !.invoked = @ \cup res.invoked,
                                  !.failed = @ \cup res.failed]]
          IN  /\ runs[r].inline => beh \in {"answers", "exits", "nolaunch"}
              /\ Got(symbolize_one_elf(target, DictGet(runs[r].jobs_by_target, target),
                                       runs[r].remaining_origins, runs[r].inline, beh))
    /\ UNCHANGED <<store, oldVars>>

\* symbolize_all_parallel: the exception of one task is raised again by the
\* iterator and leaves symbolize_all_parallel and main
Int1GroupRaises(r) ==
    /\ runs[r].pc = "symbolizing"
    /\ \E target \in runs[r].pending, beh \in Behaviours :
          LET Got(res) ==
                  /\ res.outcome = "raises"
                  /\ runs' = [runs EXCEPT ![r] =
                        [@ EXCEPT !.pc = "aborted", !.invoked = @ \cup res.invoked,
                                  !.failed = @ \cup res.failed]]
          IN  /\ ~runs[r].inline
              /\ Got(symbolize_one_elf(target, DictGet(runs[r].jobs_by_target, target),
                                       runs[r].remaining_origins, runs[r].inline, beh))
    /\ UNCHANGED <<store, oldVars>>

\* symbolize_all_parallel: a task waits in readline for a line that never comes
Int1GroupBlocks(r) ==
    /\ runs[r].pc = "symbolizing"
    /\ \E target \in runs[r].pending, beh \in Behaviours :
          LET Got(res) ==
                  /\ res.outcome = "blocks"
                  /\ runs' = [runs EXCEPT ![r] =
                        [@ EXCEPT !.pc = "blocked", !.invoked = @ \cup res.invoked]]
          IN  /\ ~runs[r].inline
              /\ Got(symbolize_one_elf(target, DictGet(runs[r].jobs_by_target, target),
                                       runs[r].remaining_origins, runs[r].inline, beh))
    /\ UNCHANGED <<store, oldVars>>

\* main, steps 7-8: save_cache_to_db(new_cache), final_cache
Int1Save(r) ==
    /\ runs[r].pc = "collected"
    /\ store' = IF runs[r].new_cache # <<>> THEN save_cache_to_db(store, runs[r].new_cache) ELSE store
    /\ runs' = [runs EXCEPT ![r] =
          [@ EXCEPT !.pc = "saved",
                    !.final_cache = DictUpdate(runs[r].cache_db_initial, runs[r].new_cache)]]
    /\ UNCHANGED oldVars

\* main, steps 9-10: rewrite_files_parallel, save_failures
Int1Rewrite(r) ==
    /\ runs[r].pc = "saved"
    /\ LET Out(text) ==
              runs' = [runs EXCEPT ![r] =
                  [@ EXCEPT !.pc = "done",
                            !.out = splitlines(transform_text(text, runs[r].final_cache)),
                            !.failures_all = runs[r].debug_failures \o runs[r].sym_failures]]
       IN  Out(FileText(disk, TRUE))
    /\ UNCHANGED <<store, oldVars>>

NextInt1 ==
    \E r \in Runs :
        \/ Int1Prepare(r)
        \/ Int1GroupDone(r)
        \/ Int1GroupRaises(r)
        \/ Int1GroupBlocks(r)
        \/ Int1Save(r)
        \/ Int1Rewrite(r)

SpecInt1 == InitInt1 /\ [][NextInt1]_vars

(***************************************************************************)
(* Properties of parse_stack_lines                                         *)
(***************************************************************************)
\* the frames of all traces, in order
AllFrames(ts) == Flatten([i \in 1..Len(ts) |-> ts[i].frames])

\* C6: parse_stack_lines partitions the frame lines of the input into traces:
\* every trace is non-empty, traces[i] and each of its frames carry trace_index i,
\* a trace starts exactly at each frame line with index 0 and at the first frame
\* line of the input, and the frames of all traces, concatenated, are the frame
\* lines of the input in order.
C6_Partition ==
    pc = "parsed" =>
        /\ \A i \in 1..Len(traces) :
              /\ traces[i].frames # <<>>
              /\ traces[i].trace_index = i - 1
              /\ \A k \in 1..Len(traces[i].frames) :
                    /\ traces[i].frames[k].trace_index = i - 1
                    /\ traces[i].frames[k].frame_index
                           = DecVal(FrameLineRe(traces[i].frames[k].raw_line).frame_index)
                    /\ (k > 1 => traces[i].frames[k].frame_index # 0)
                    /\ (k = 1 /\ i > 1 => traces[i].frames[k].frame_index = 0)
        /\ [k \in 1..Len(AllFrames(traces)) |-> AllFrames(traces)[k].raw_line]
               = SelectSeq(source, IsFrameLine)

\* a parse that opened trace 0 at a frame with a nonzero index, closed it at a
\* '#0' line, and left a trace with more than one frame
C6_Witness ==
    /\ pc = "parsed"
    /\ Len(traces) >= 2
    /\ traces[1].frames[1].frame_index # 0
    /\ \E i \in 1..Len(traces) : Len(traces[i].frames) >= 2

\* the positions of the frame lines with index 0
ZeroLines(lines) ==
    {j \in 1..Len(lines) : IsFrameLine(lines[j]) /\ DecVal(FrameLineRe(lines[j]).frame_index) = 0}

\* the input is two concatenated traces, each starting at '#0'
TwoTraces(lines) ==
    /\ Cardinality(ZeroLines(lines)) = 2
    /\ \A j \in 1..(SetMin(ZeroLines(lines)) - 1) : ~IsFrameLine(lines[j])

\* the non-frame lines between the last frame line before position z and position z
LinesBefore(lines, z) ==
    SubSeq(lines, SetMin({j \in 1..z : \A k \in j..(z - 1) : ~IsFrameLine(lines[k])}), z - 1)

\* C7: on an input of two concatenated traces that each start at '#0',
\* parse_stack_lines gives exactly two traces; the lines before the first '#0' are
\* the preamble of the first, and the non-frame lines between the last frame of the
\* first trace and the second '#0' are the preamble of the second.
C7_TwoPreambles ==
    pc = "parsed" /\ TwoTraces(source) =>
        /\ Len(traces) = 2
        /\ traces[1].preamble = LinesBefore(source, SetMin(ZeroLines(source)))
        /\ traces[2].preamble = LinesBefore(source, SetMin(ZeroLines(source) \ {SetMin(ZeroLines(source))}))

(***************************************************************************)
(* Properties of merge_original_file                                       *)
(***************************************************************************)
RECURSIVE IsSubseq(_, _)
\* a occurs in b as a (not necessarily contiguous) subsequence
IsSubseq(a, b) ==
    IF a = <<>> THEN TRUE
    ELSE IF b = <<>> THEN FALSE
    ELSE IF Head(a) = Head(b) THEN IsSubseq(Tail(a), Tail(b))
    ELSE IsSubseq(a, Tail(b))

NotFrameLine(line) == ~IsFrameLine(line)

\* C1: merging a file with the traces parsed from that same file keeps every
\* original line that is not a frame line, verbatim and in the original order.
C1_NonFrameLinesKept ==
    pc = "merged" /\ disk = source => IsSubseq(SelectSeq(disk, NotFrameLine), outLines)

\* the line of the anchor of trace t at or after line i; 0 when there is none
AnchorAt(lines, i, t) ==
    LET A(F) == IF F = {} THEN 0 ELSE SetMin(F)
    IN  A({j \in i..Len(lines) : lines[j] = t.frames[1].raw_line})

\* the first original line after the lines dropped for trace t, anchored at line s
AfterTrace(lines, s, t) ==
    IF s + Len(t.frames) <= Len(lines) + 1 THEN s + Len(t.frames) ELSE Len(lines) + 1

RECURSIVE FirstMissing(_, _, _, _)
\* the number (from k) of the first trace of ts whose anchor is not found in the
\* part of lines not yet consumed (from line i on); 0 when every anchor is found
FirstMissing(lines, ts, i, k) ==
    IF ts = <<>> THEN 0
    ELSE IF AnchorAt(lines, i, Head(ts)) = 0 THEN k
    ELSE FirstMissing(lines, Tail(ts), AfterTrace(lines, AnchorAt(lines, i, Head(ts)), Head(ts)), k + 1)

RECURSIVE Spliced(_, _, _, _)
\* lines from line i on, where for each trace of ts (every anchor is found) the
\* lines dropped from its anchor on are replaced by its rendered frame lines and sep
Spliced(lines, ts, i, sep) ==
    IF ts = <<>> THEN SubSeq(lines, i, Len(lines))
    ELSE SubSeq(lines, i, AnchorAt(lines, i, Head(ts)) - 1)
         \o FormatFrames(Head(ts).frames, 0) \o sep
         \o Spliced(lines, Tail(ts), AfterTrace(lines, AnchorAt(lines, i, Head(ts)), Head(ts)), sep)

RECURSIVE EnoughLines(_, _, _)
\* at every anchor, at least len(trace.frames) original lines remain
EnoughLines(lines, ts, i) ==
    IF ts = <<>> THEN TRUE
    ELSE /\ AnchorAt(lines, i, Head(ts)) + Len(Head(ts).frames) <= Len(lines) + 1
         /\ EnoughLines(lines, Tail(ts), AfterTrace(lines, AnchorAt(lines, i, Head(ts)), Head(ts)))

\* C2 (as amended): when the anchors are found, for each trace the len(trace.frames)
\* original lines from its anchor on (all the lines from the anchor on when fewer
\* remain) are dropped, and in their place stand the rendered frame lines of the
\* trace followed by one empty separator line; every other line of the output is
\* the original line, so the text before the first trace and after the last one
\* is unchanged.
C2_SpliceWithSeparator ==
    pc = "merged" /\ FirstMissing(disk, symTraces, 1, 1) = 0 =>
        outLines = Spliced(disk, symTraces, 1, << <<>> >>)

\* a merge of a trace whose rendering has more lines than the trace has frames
\* (inline expansion), with original text before and after the trace
C2_Witness ==
    /\ pc = "merged"
    /\ disk = source
    /\ FirstMissing(disk, symTraces, 1, 1) = 0
    /\ Len(symTraces) = 1
    /\ Len(FormatFrames(symTraces[1].frames, 0)) > Len(symTraces[1].frames)
    /\ ~IsFrameLine(disk[1])
    /\ ~IsFrameLine(disk[Len(disk)])

\* C2 as stated: exactly len(trace.frames) original lines are dropped at each
\* anchor, exactly the rendered frame lines stand in their place, and the merge
\* writes no other line that was not in the original.
C2_SpliceExactly ==
    pc = "merged" /\ FirstMissing(disk, symTraces, 1, 1) = 0 =>
        /\ EnoughLines(disk, symTraces, 1)
        /\ outLines = Spliced(disk, symTraces, 1, <<>>)

\* C3: when the anchor of trace k is not found in the part of the original text
\* not yet consumed, the output is what merging only the traces before k gives:
\* the output up to that point, then all the remaining original lines unchanged;
\* trace k and the later traces are not merged.
C3_StopAtMissingAnchor ==
    pc = "merged" /\ FirstMissing(disk, symTraces, 1, 1) > 0 =>
        outLines = Spliced(disk, SubSeq(symTraces, 1, FirstMissing(disk, symTraces, 1, 1) - 1),
                           1, << <<>> >>)

\* a merge where the anchor of a trace is missing although the anchor of a later
\* trace is in the remaining text
C3_Witness ==
    /\ pc = "merged"
    /\ FirstMissing(disk, symTraces, 1, 1) > 0
    /\ FirstMissing(disk, symTraces, 1, 1) < Len(symTraces)
    /\ \E j \in 1..Len(disk) :
          disk[j] = symTraces[FirstMissing(disk, symTraces, 1, 1) + 1].frames[1].raw_line

(***************************************************************************)
(* Properties of format_symbolized_trace and transform_text                *)
(***************************************************************************)
\* C5: the stack-only lines of a symbolized trace, parsed again, give exactly
\* one trace; its frames are the emitted lines except the closing separator
\* line, and their frame_index values are 0, 1, ..., N-1 in order.
C5_ReparseIndices ==
    pc = "reparsed" =>
        /\ Len(reparsed) = 1
        /\ Len(reparsed[1].frames) = Len(outLines) - 1
        /\ Len(reparsed[1].frames) >= 1
        /\ \A k \in 1..Len(reparsed[1].frames) :
              /\ reparsed[1].frames[k].frame_index = k - 1
              /\ reparsed[1].frames[k].raw_line = outLines[k]

\* a re-parsed trace with an inline expansion and a frame whose input index is
\* not the index it is rendered with
C5_Witness ==
    /\ pc = "reparsed"
    /\ \E t \in 1..Len(symTraces) :
          /\ outLines = format_symbolized_trace(symTraces[t], FALSE)
          /\ Len(reparsed[1].frames) > Len(symTraces[t].frames)
          /\ \E k \in 1..Len(symTraces[t].frames) :
                Len(symTraces[t].frames[k].inlines) = 2
          /\ symTraces[t].frames[Len(symTraces[t].frames)].raw_line = LineSym1

\* the line starts with optional white space and '#<digits>'
HashDigits(line) ==
    /\ At(line, RunEnd(line, 1, WsAtoms)) = "#"
    /\ RunEnd(line, RunEnd(line, 1, WsAtoms) + 1, DigitAtoms) > RunEnd(line, 1, WsAtoms) + 1

NotHashDigits(line) == ~HashDigits(line)

\* C4: the lines of the text transform_text returns that do not start with
\* optional white space and '#<digits>' are, in order and with their line
\* terminators, the lines of that kind of the input text.
C4_OtherLinesKept ==
    pc = "rewritten" => SelectSeq(outLines, NotHashDigits) = SelectSeq(source, NotHashDigits)

(***************************************************************************)
(* Properties of the rendering of inline expansions                        *)
(***************************************************************************)
\* the line carries a parenthesised group: '(<object>+<offset>)' or a build-id annotation
HasHint(l) == \E p \in 1..Len(l) : l[p] = "("

\* the location of a (function, location) entry is unknown: it starts with '??'
UnknownLoc(entry) == Literal(Strip(entry[2]), 1, <<"?", "?">>)

\* lines is the rendering of the k entries of one frame as the claim describes it:
\* k lines, numbered first, first + 1, ..., all with the frame's address, the
\* hint on line 1 exactly when the first entry's location is unknown, on no other line
RenderedInline(lines, entries, first, address) ==
    /\ Len(lines) = Len(entries)
    /\ \A i \in 1..Len(lines) :
          Literal(LStrip(lines[i]), 1, <<"#">> \o ToDigits(first + i - 1) \o <<" ">> \o address \o <<" ">>)
    /\ HasHint(lines[1]) <=> UnknownLoc(entries[1])
    /\ \A i \in 2..Len(lines) : ~HasHint(lines[i])

\* the stack line of transform_text has a '(path+0xOFF)' whose cache entry has several frames
Int1Inline(line, table) ==
    /\ StackLinePrefix(line)
    /\ StackEntryPattern(line).matched
    /\ LET Key(key) == DictHas(table, key) /\ Len(DictGet(table, key)) > 1
       IN  Key(<<JoinSplit(StackEntryPattern(line).path), StackEntryPattern(line).offset>>)

Int1Entries(line, table) ==
    DictGet(table, <<JoinSplit(StackEntryPattern(line).path), StackEntryPattern(line).offset>>)

Int1Address(line) == IF HeadRe(line).matched THEN HeadRe(line).addr ELSE FirstHex(line)

\* format_symbolized_trace renders every frame with several inlines as the claim describes
C11_Qms3Inline ==
    pc = "symbolized" =>
        \A t \in 1..Len(symTraces) : \A k \in 1..Len(symTraces[t].frames) :
            LET R(frame) == Len(frame.inlines) > 1 =>
                                RenderedInline(FrameLines(frame, k), frame.inlines, k, frame.address)
            IN  R(symTraces[t].frames[k])

\* transform_text renders every stack line whose cache entry has several frames as the claim describes
C11_Int1Inline ==
    pc = "rewritten" =>
        \A j \in 1..Len(source) : \A n \in 1..MaxLines :
            LET R(line) == Int1Inline(line, final_cache) =>
                               RenderedInline(TransformLine(line, n, final_cache),
                                              Int1Entries(line, final_cache),
                                              IF OrigIdx(line) = 0 THEN 0 ELSE n, Int1Address(line))
            IN  R(source[j])

\* C11: a frame whose symbol entry has k > 1 (function, location) pairs is
\* rendered, by format_symbolized_trace and by transform_text, as k lines with
\* k consecutive indices and the frame's address; the object/build-id hint is
\* on the first line exactly when the first entry's location is unknown, and
\* on none of the lines 2..k.
C11_InlineRendering == C11_Qms3Inline /\ C11_Int1Inline

(***************************************************************************)
(* Properties of FindDebugElfsforMain                                      *)
(***************************************************************************)
\* the path lies inside the rootfs
InsideRootfs(p) == Len(p) >= Len(rootfs_real) /\ SubSeq(p, 1, Len(rootfs_real)) = rootfs_real

\* the build-id-tree entry and the same-directory '.debug' file both exist, as distinct files
BuildidAndSameDir ==
    /\ exists(tree, BuildidEntry)
    /\ exists(tree, SameDirDebug)
    /\ realpath(tree, BuildidEntry) # realpath(tree, SameDirDebug)

\* C12: the best candidate find_debug_for_main selects is one of the existing
\* candidates, none of them has a higher priority, and none of the same
\* priority is larger; when the build-id-tree file and the same-directory
\* '.debug' file both exist as distinct files the build-id-tree file is
\* selected, whichever is larger.
C12_BestByPriorityThenSize ==
    pc = "found" /\ findResult.build_id # <<>> =>
        LET cs == findResult.candidates
            best == findResult.best
        IN  /\ best.found <=> cs # <<>>
            /\ best.found =>
                  /\ \E i \in 1..Len(cs) : cs[i] = best.c
                  /\ \A i \in 1..Len(cs) :
                        /\ cs[i].priority <= best.c.priority
                        /\ cs[i].priority = best.c.priority => cs[i].size <= best.c.size
            /\ BuildidAndSameDir =>
                  best.found /\ best.c.kind = "buildid" /\ best.c.abs = realpath(tree, BuildidEntry)

\* the build-id-tree file is the smaller of the two and is selected; two
\* overlay-class files of different sizes exist as well
C12_Witness ==
    /\ pc = "found"
    /\ File(BuildidEntry, 1, FALSE, <<>>) \in tree
    /\ File(SameDirDebug, 2, FALSE, <<>>) \in tree
    /\ File(OverlayDebug, 1, FALSE, <<>>) \in tree
    /\ File(TizenDebug, 2, FALSE, <<>>) \in tree
    /\ findResult.best.found
    /\ findResult.best.c.abs = BuildidEntry
    /\ Len(findResult.candidates) = 4

\* C13: the debug path resolve_buildid_candidate returns is inside the rootfs:
\* a build-id-tree link whose resolution leaves the rootfs (absolute, relative
\* with '..', or through a chain of links) is reported as not found.
C13_LinkStaysInRootfs ==
    pc = "resolved" /\ findResult.found => InsideRootfs(findResult.abs)

(***************************************************************************)
(* Grouping and completion order in symbolizer.symbolize_trace             *)
(***************************************************************************)
SubmissionOrder == [g \in 1..MaxGroups |-> g]

LookupAddr(frame) == IF frame.obj_offset # <<>> THEN frame.obj_offset ELSE frame.address

Occurs(req, addr) == Cardinality({i \in 1..Len(req.addrs) : req.addrs[i] = addr})

\* the backend calls made for trace t (1-based) with the resolved pair
RequestsFor(t, pair) ==
    {i \in 1..Len(requests) : /\ requests[i].trace_index = t - 1
                              /\ requests[i].real_elf = pair.real_elf
                              /\ requests[i].debug_elf = pair.debug_elf}

\* the same binary and the same address, however the address is written
SameBinaryAndAddress(f1, f2) ==
    /\ f1.obj_path = f2.obj_path
    /\ f1.build_id = f2.build_id
    /\ normalize_addr(LookupAddr(f1)) = normalize_addr(LookupAddr(f2))

\* C20: symbolize_trace groups the uncached frames by their resolved
\* (real_elf, debug_elf); for each group of a trace the backend is called
\* exactly once and each distinct lookup address is in the request exactly
\* once; frames of a trace that share binary and address get the same frames;
\* whatever the order in which the groups complete, the result is the one of
\* the submission order, with one SymbolizedFrame per input frame in input order.
C20_GroupsAndOrder ==
    pc = "symbolized" =>
        /\ symTraces = symbolize_all(traces, [rcache |-> <<>>, acache |-> <<>>], SubmissionOrder).out
        /\ Len(symTraces) = Len(traces)
        /\ \A t \in 1..Len(traces) :
              /\ Len(symTraces[t].frames) = Len(traces[t].frames)
              /\ \A k \in 1..Len(traces[t].frames) :
                    /\ symTraces[t].frames[k].frame_index = k - 1
                    /\ symTraces[t].frames[k].raw_line = traces[t].frames[k].raw_line
                    /\ LET frame == traces[t].frames[k]
                           pair  == resolve_pair(frame.obj_path, frame.build_id)
                       IN  frame.obj_path # <<>> /\ pair.real_elf # NoPath =>
                              /\ Cardinality(RequestsFor(t, pair)) <= 1
                              /\ \/ \E i \in RequestsFor(t, pair) : Occurs(requests[i], LookupAddr(frame)) = 1
                                 \/ /\ \A i \in RequestsFor(t, pair) : Occurs(requests[i], LookupAddr(frame)) = 0
                                    /\ \E u \in 1..(t - 1) : \E i \in RequestsFor(u, pair) :
                                           Occurs(requests[i], LookupAddr(frame)) = 1
              /\ \A k1, k2 \in 1..Len(traces[t].frames) :
                    SameBinaryAndAddress(traces[t].frames[k1], traces[t].frames[k2])
                        => symTraces[t].frames[k1].inlines = symTraces[t].frames[k2].inlines
        /\ \A i \in 1..Len(requests) :
              /\ \A a \in 1..Len(requests[i].addrs) : Occurs(requests[i], requests[i].addrs[a]) = 1
              /\ \A j \in 1..Len(requests) :
                    i # j /\ requests[i].trace_index = requests[j].trace_index
                        => requests[i].group_index # requests[j].group_index

\* the second group of a trace completed before the first one, and two frames
\* of that trace share a binary and an address that the backend resolved
C20_Witness ==
    /\ pc = "symbolized"
    /\ \E i, j \in 1..Len(requests) :
          /\ i < j
          /\ requests[i].trace_index = requests[j].trace_index
          /\ requests[i].group_index > requests[j].group_index
          /\ \E k1, k2 \in 1..Len(traces[requests[i].trace_index + 1].frames) :
                /\ k1 # k2
                /\ SameBinaryAndAddress(traces[requests[i].trace_index + 1].frames[k1],
                                        traces[requests[i].trace_index + 1].frames[k2])
                /\ traces[requests[i].trace_index + 1].frames[k1].obj_path # <<>>
                /\ symTraces[requests[i].trace_index + 1].frames[k1].inlines # <<Unknown>>

(***************************************************************************)
(* Frames whose binary is not under the rootfs                             *)
(***************************************************************************)
\* C14: a frame whose object path has no file under the rootfs and which
\* carries no build-id is symbolized without an exception and its result is
\* exactly the one-element list [('??','??:0')], never an empty list and never
\* anything else.
C14_UnknownWhenNoFile ==
    pc = "symbolized" =>
        \A t \in 1..Len(traces) : \A k \in 1..Len(traces[t].frames) :
            LET frame == traces[t].frames[k]
            IN  /\ frame.obj_path # None
                /\ frame.build_id = None
                /\ ~is_file(RootfsPath(frame.obj_path))
                => symTraces[t].frames[k].inlines = <<Unknown>>

(***************************************************************************)
(* Backend failures in quick_multi_symbolizer_int1                         *)
(***************************************************************************)
\* transform_text, lines 774-776: the frames used for a key
FramesFor(cache, key) ==
    IF DictHas(cache, key) /\ DictGet(cache, key) # <<>> THEN DictGet(cache, key) ELSE <<Unknown>>

\* a FailureInfo for the origin key is among failures
Recorded(failures, key) ==
    \E i \in 1..Len(failures) : failures[i].orig_elf = key[1] /\ failures[i].offset = key[2]

\* C15: when the backend of one group fails (cannot be launched, exits early,
\* stdin pipe breaks) no exception leaves symbolize_all_parallel: the run goes
\* on to the rewrite step with the results of the other groups, the failed
\* group's addresses are unknown and the failure is recorded.
C15_FailedGroupDegrades ==
    \A r \in Runs :
        /\ runs[r].pc # "aborted"
        /\ runs[r].pc \in {"collected", "saved", "done"} =>
              \A key \in runs[r].failed :
                  /\ FramesFor(runs[r].new_cache, key) = <<Unknown>>
                  /\ Recorded(runs[r].sym_failures, key)

\* C16: whenever the backend could not produce a result for a requested
\* origin (target missing, launch failure, non-zero exit), inline or not, the
\* address is rendered from [('??','??:0')] and a FailureInfo for the origin is
\* among the failures that save_failures writes.
C16_FailureRecorded ==
    \A r \in Runs :
        runs[r].pc = "done" =>
            \A key \in runs[r].failed :
                /\ FramesFor(runs[r].final_cache, key) = <<Unknown>>
                /\ Recorded(runs[r].failures_all, key)

(***************************************************************************)
(* The cache database of quick_multi_symbolizer_int1                       *)
(***************************************************************************)
\* C17: in every interleaving of two runs that load the store, compute a
\* result for the same key and save, a row once present in the store is never
\* overwritten: every step leaves each row with the value written first.
C17_RowsNeverOverwritten ==
    [][\A i \in 1..Len(store) :
           DictHas(store', store[i].key) /\ DictGet(store', store[i].key) = store[i].val]_vars

KeySet(d) == {d[i].key : i \in 1..Len(d)}

\* C18: only keys absent from the loaded cache are grouped for symbolization,
\* so a run that starts after another run over the same input and store has
\* ended invokes the backend for no key for which that run obtained a result;
\* the table used for rewriting is the union of the loaded entries and the new
\* ones, and their key sets are disjoint.
C18_CacheReuse ==
    \A r \in Runs :
        /\ KeySet(runs[r].remaining_origins) = KeySet(runs[r].origins) \ KeySet(runs[r].cache_db_initial)
        /\ UNION {{ks[i] : i \in 1..Len(ks)} : ks \in {runs[r].jobs_by_target[j].val :
                                                       j \in 1..Len(runs[r].jobs_by_target)}}
              = KeySet(runs[r].remaining_origins)
        /\ runs[r].invoked \subseteq KeySet(runs[r].remaining_origins)
        /\ \A q \in runs[r].after : runs[r].invoked \cap KeySet(runs[q].new_cache) = {}
        /\ KeySet(runs[r].new_cache) \cap KeySet(runs[r].cache_db_initial) = {}
        /\ runs[r].pc \in {"saved", "done"} =>
              /\ KeySet(runs[r].final_cache) = KeySet(runs[r].cache_db_initial) \cup KeySet(runs[r].new_cache)
              /\ \A key \in KeySet(runs[r].cache_db_initial) :
                     DictGet(runs[r].final_cache, key) = DictGet(runs[r].cache_db_initial, key)
              /\ \A key \in KeySet(runs[r].new_cache) :
                     DictGet(runs[r].final_cache, key) = DictGet(runs[r].new_cache, key)

\* a run has ended that started after the other run had ended with results,
\* found them in the store and rewrote the file from them
C18_Witness ==
    \E r \in Runs : \E q \in runs[r].after :
        /\ runs[r].pc = "done"
        /\ runs[q].new_cache # <<>>
        /\ KeySet(runs[q].new_cache) \subseteq KeySet(runs[r].cache_db_initial)
        /\ KeySet(runs[q].new_cache) \cap KeySet(runs[r].origins) # {}
        /\ runs[r].invoked = {}

\* C19: in a run made without --inline every SymbolInfo that transform_text
\* uses has exactly one (function, location) entry and each frame line of the
\* input becomes exactly one output line, whatever earlier runs (also runs
\* made with --inline) left in the cache database.
C19_NonInlineOneLine ==
    \A r \in Runs :
        runs[r].pc = "done" /\ ~runs[r].inline =>
            /\ \A key \in KeySet(runs[r].origins) : Len(FramesFor(runs[r].final_cache, key)) = 1
            /\ Len(runs[r].out) = Len(disk)

(***************************************************************************)
(* Properties of the build-id annotation and of the end-to-end scenario    *)
(***************************************************************************)
\* C8: for a frame line, _parse_frame_line extracts the build-id X whatever the
\* spelling of the annotation ('(build-id:X)', '(Build-id:X)', '(BUILD-ID: X)',
\* '(buildid:X)', '(build id: X)') and whether or not a '(path+0xOFF)' group
\* is there, and extracts the path and offset whether or not a build-id is there.
C8_BuildIdSpellings ==
    pc = "parsed" =>
        \A i \in 1..Len(traces) : \A k \in 1..Len(traces[i].frames) :
            /\ (traces[i].frames[k].raw_line # ScnPathOnlyLine
                    => traces[i].frames[k].build_id = ScnBuildId)
            /\ (traces[i].frames[k].raw_line # ScnNoPathLine(<<"(", "Build", "-", "id", ":">>)
                    => /\ traces[i].frames[k].obj_path = <<"/usr/lib64/libfoo.so">>
                       /\ traces[i].frames[k].obj_offset = <<"0x", "1", "f", "d", "b", "8">>)

\* C9: the scenario line with '(build-id:aa0d6e0011223344)', a rootfs that holds
\* the debug file of that build-id and a backend that knows do_work at foo.c:42
\* for offset 0x1fdb8 of that debug file: the rendered frame line is
\* '#0 0x1ffff9de0d58 in do_work at foo.c:42'.
C9_ScenarioResolved ==
    /\ pc = "formatted"
    /\ source = <<ScnLine(<<"(", "build", "-", "id", ":">>)>>
    /\ DebugFoo \in fs
    /\ backendOk
    => Text(outLines[1]) = "#0 0x1ffff9de0d58 in do_work at foo.c:42"

\* the hint '(<object_path>+<offset>) (build-id:<id>)' of a symbolized frame
ClaimedHint(frame) ==
    <<"(">> \o frame.obj_path \o <<"+">> \o frame.obj_offset \o <<")">>
    \o (IF frame.build_id # None
        THEN <<" ", "(", "build", "-", "id", ":">> \o frame.build_id \o <<")">>
        ELSE <<>>)

\* C10: a frame whose symbol information is exactly [('??','??:0')] is rendered
\* as the one line '#<n> <address> in ?? at ??:0' followed by the hint
\* '(<object_path>+<offset>) (build-id:<id>)' built from the frame's recorded
\* path, offset and build-id; for the scenario line with the debug file absent
\* the line is
\* '#0 0x1ffff9de0d58 in ?? at ??:0 (/usr/lib64/libfoo.so+0x1fdb8) (build-id:aa0d6e0011223344)'.
C10_UnknownFrameHint ==
    pc = "formatted" /\ Len(source) = 1 /\ symTraces[1].frames[1].inlines = <<Unknown>> =>
        /\ Len(outLines) = 2
        /\ outLines[1] = <<"#", "0", " ">> \o symTraces[1].frames[1].address
                         \o <<" ", "in", " ", "?", "?", " ", "at", " ", "?", "?", ":", "0", " ">>
                         \o ClaimedHint(symTraces[1].frames[1])
        /\ (source[1] = ScnLine(<<"(", "build", "-", "id", ":">>) /\ DebugFoo \notin fs
              => Text(outLines[1])
                   = "#0 0x1ffff9de0d58 in ?? at ??:0 (/usr/lib64/libfoo.so+0x1fdb8) (build-id:aa0d6e0011223344)")

(***************************************************************************)
(* C28: with --jobs > 1 and --merge-output no two qss.py processes write   *)
(* the same output path, also for files of the same name in different      *)
(* directories, and the final content of the output directory does not     *)
(* depend on the interleaving of the processes.                            *)
(***************************************************************************)
\* the output directory after the files were handled one after the other, in order
RECURSIVE SequentialOut(_, _)
SequentialOut(files, out) ==
    IF files = <<>> THEN out
    ELSE LET f == Head(files)
             After(m) == SequentialOut(Tail(files), IF m.written THEN DictSet(out, f.name, m.out) ELSE out)
         IN  After(merge_single_file([name |-> f.name, lines |-> f.lines],
                                     [rcache |-> <<>>, acache |-> <<>>], SubmissionOrder))

C28_NoSharedOutputPath ==
    batch.jobs > 1 =>
        /\ \A k \in DOMAIN batch.writers : Cardinality(batch.writers[k].val) <= 1
        /\ batch.pc = "exited" => batch.out = SequentialOut(batch.stack_files, <<>>)

\* two processes wrote the same path and the one of the earlier file wrote last
C28_LastWriterWins ==
    ~(/\ batch.pc = "exited" /\ batch.jobs > 1
      /\ \E k \in DOMAIN batch.writers : Cardinality(batch.writers[k].val) = 2
      /\ batch.out # SequentialOut(batch.stack_files, <<>>))

(***************************************************************************)
(* C29: the real ELF path the resolver returns for an object path is the   *)
(* path joined under the rootfs, or None; it is never a file of the host   *)
(* outside the rootfs.                                                     *)
(***************************************************************************)
C29_RealElfUnderRootfs ==
    pc = "symbolized" =>
        /\ \A i \in DOMAIN caches.rcache :
              caches.rcache[i].val.real_elf \in {NoPath, RootfsPath(caches.rcache[i].key[1])}
        /\ \A i \in DOMAIN requests : requests[i].real_elf.root = "rootfs"

(***************************************************************************)
(* C26: run_addr2line_multi matches answers to requests by normalized      *)
(* address (_normalize_addr is idempotent and gives one text for 0x10,     *)
(* 0X10, 10 and 0x010), and for every requested address string the frames  *)
(* it returns are exactly the frames the backend printed for that address  *)
(* value, once, also when two requested strings of one batch normalize to  *)
(* the same value.                                                         *)
(***************************************************************************)
\* the frames the backend prints for one address of a request
PrintedFor(request, addr) ==
    SymTab(choose_executable(request.real_elf, request.debug_elf), normalize_addr(addr))

C26_AnswersByNormalizedAddress ==
    (pc = "symbolized" /\ backendOk) =>
        \A i \in DOMAIN requests :
            LET Each(request, result) ==
                    \A k \in DOMAIN request.addrs :
                        LET addr == request.addrs[k]
                        IN  /\ normalize_addr(normalize_addr(addr)) = normalize_addr(addr)
                            /\ normalize_addr(<<"0X">> \o Tail(addr)) = normalize_addr(addr)
                            /\ normalize_addr(Tail(addr)) = normalize_addr(addr)
                            /\ normalize_addr(<<"0x", "0">> \o Tail(addr)) = normalize_addr(addr)
                            /\ DictHas(result, addr)
                            /\ DictGet(result, addr) = PrintedFor(request, addr)
            IN  Each(requests[i], run_addr2line_multi(requests[i].addrs, requests[i].real_elf, requests[i].debug_elf))

\* the part of C26 that holds: the normalization, and the answers of a batch
\* whose requested strings normalize to different values
C26_DistinctValuesAnswered ==
    (pc = "symbolized" /\ backendOk) =>
        \A i \in DOMAIN requests :
            LET Each(request, result) ==
                    \A k \in DOMAIN request.addrs :
                        LET addr == request.addrs[k]
                        IN  /\ normalize_addr(normalize_addr(addr)) = normalize_addr(addr)
                            /\ normalize_addr(<<"0X">> \o Tail(addr)) = normalize_addr(addr)
                            /\ normalize_addr(Tail(addr)) = normalize_addr(addr)
                            /\ normalize_addr(<<"0x", "0">> \o Tail(addr)) = normalize_addr(addr)
                            /\ (\A j \in DOMAIN request.addrs :
                                   normalize_addr(request.addrs[j]) = normalize_addr(addr) => j = k)
                               => /\ DictHas(result, addr)
                                  /\ DictGet(result, addr) = PrintedFor(request, addr)
            IN  Each(requests[i], run_addr2line_multi(requests[i].addrs, requests[i].real_elf, requests[i].debug_elf))

(***************************************************************************)
(* C22: for addresses written in order to one backend started with the     *)
(* flags the adapter passes, symbolize_many reads two output lines per     *)
(* address and the SymbolInfo stored for address i is built from the       *)
(* backend's answer to address i and from no other address's answer.       *)
(***************************************************************************)
C22_AnswerOfOwnAddress ==
    reader.per = FlagLines(reader.adapter) =>
        /\ \A k \in DOMAIN reader.result :
              LET e == reader.result[k]
              IN  /\ e.val.func.of \in {0, e.key}
                  /\ e.val.loc.of \in {0, e.key}
        /\ reader.pc = "returned" =>
              \A i \in 1..reader.offsets :
                  /\ DictHas(reader.result, i)
                  /\ DictGet(reader.result, i) = [func |-> [of |-> i, n |-> 1], loc |-> [of |-> i, n |-> 2]]

\* the adapter of quick_multi_symbolizer.py, whose flags have no -p, pairs the lines rightly
C22_QuickPairs ==
    (reader.adapter = "quick" /\ reader.per = FlagLines("quick")) =>
        /\ \A k \in DOMAIN reader.result :
              reader.result[k].val = [func |-> [of |-> reader.result[k].key, n |-> 1],
                                      loc |-> [of |-> reader.result[k].key, n |-> 2]]
        /\ reader.pc = "returned" => \A i \in 1..reader.offsets : DictHas(reader.result, i)

(***************************************************************************)
(* C30: symbolize_many always returns: it cannot wait for ever in readline,*)
(* whatever number of lines (0, 1, 2 or more) a backend that is still      *)
(* running prints per address.                                             *)
(***************************************************************************)
C30_SymbolizeManyReturns == <>(reader.pc = "returned")

\* the call waits in readline: the pipe is empty and the backend is running
C30_NeverWaitsForEver ==
    ~(reader.pc = "reading" /\ reader.stdout = <<>> /\ reader.running)

(***************************************************************************)
(* C25: when, for one binary, both a file located through its              *)
(* gnu-debuglink (same directory or .debug subdirectory) and the           *)
(* build-id-tree file <debug-root>/<first 2 hex>/<rest>.debug exist, the   *)
(* target the resolvers of the pipelines return is the build-id-tree file. *)
(***************************************************************************)
BothExist ==
    /\ is_file(RootfsPath(LinkedElf))
    /\ HasDebuglink(RootfsPath(LinkedElf))
    /\ is_file(LinkSameDir) \/ is_file(LinkDotDebug)
    /\ is_file(BidDebug)
    /\ resolvedTarget.build_id = LinkBid

C25_BuildIdTreeWins ==
    BothExist =>
        /\ resolvedTarget.int1 # <<>> => resolvedTarget.int1[1].target = BidDebug
        /\ (resolvedTarget.quick # <<>> /\ resolvedTarget.quick[1].mode = "gnu") => resolvedTarget.quick[1].res.target = BidDebug

\* resolve_target_elf_gnu of int1 does return the build-id-tree file
C25_Int1BuildIdTree ==
    (BothExist /\ resolvedTarget.int1 # <<>>) => resolvedTarget.int1[1].target = BidDebug

(***************************************************************************)
(* C24: the name-based candidates of find_debug_for_main come from the     *)
(* path text alone, so for an ELF binary from which no build-id can be     *)
(* read every such candidate that exists is listed in 'candidates' and one *)
(* of them is returned as 'best'.                                          *)
(***************************************************************************)
C24_NameCandidatesWithoutBuildId ==
    (pc = "found" /\ findResult.is_elf /\ findResult.build_id = None) =>
        LET expected == NameCandidates(tree, rootfs_real, findResult.main_rel)
        IN  /\ \A i \in DOMAIN expected :
                  \E j \in DOMAIN findResult.candidates : findResult.candidates[j].abs = expected[i].abs
            /\ expected # <<>> =>
                  /\ findResult.best.found
                  /\ \E i \in DOMAIN expected : findResult.best.c.abs = expected[i].abs

====
